---- MODULE Spec2Model ----
(***************************************************************************)
(* A model of the multiplayer physics game: the replication layer         *)
(* (sync.js),                                                              *)
(* the tool executor (tools.js), the world facade (engine.js), the page's  *)
(* handlers (app/game/page.js, GameCanvas) and the chaos orchestrator      *)
(* (chaos.js).                                                             *)
(*                                                                         *)
(* Conventions.  A JavaScript null/undefined scalar is NULL, a null or     *)
(* undefined object is the empty record Undefined, a repeating-timer       *)
(* handle is a positive integer and "no handle" (null) is NoTimer = 0,     *)
(* the two falsy values of `if (handle)`.  Forces are in thousandths.      *)
(* The rigid-body integrator is not modelled: a body stays where it was    *)
(* put.                                                                    *)
(***************************************************************************)
EXTENDS Integers, Sequences, FiniteSets, Bags, TLC

VARIABLES
    now,            \* Date.now(), one wall clock
    localPlayerId,  \* sync.js localPlayerId, per peer
    multiplayer,    \* page.js: isMultiplayer && isConnected(), per peer
    world,          \* engine.js engine (and objects.js objectIdCounter), per peer
    remoteCursors,  \* page.js remoteCursors state, per peer
    wire,           \* the sync events of the latest broadcast, still deliverable
    firstSender,    \* senderId of the first event a peer built since its initMultiplayer
    last,           \* the operation that produced this state, and what it did
    chaos,          \* chaos.js module state
    timers,         \* the host's table of active repeating timers
    nextTimer,      \* the next handle setInterval returns
    timeouts,       \* the host's pending one-shot timers (a bag)
    explosions,     \* history: the explodeBody calls made so far (a bag)
    special,        \* special.js module state
    holeLog,        \* history: the black holes cleared, the explodeBlackHole calls
    page,           \* page.js GamePage on peer Me: its state, refs and room promise
    net             \* peer.js on every peer of one room, and the data in flight

vars == <<now, localPlayerId, multiplayer, world, remoteCursors,
          wire, firstSender, last, chaos, timers, nextTimer, timeouts,
          explosions, special, holeLog, page, net>>

syncVars == <<localPlayerId, multiplayer, remoteCursors, wire, firstSender>>
chaosVars == <<chaos, timers, nextTimer, timeouts, explosions, special, holeLog,
               page, net>>
loopVars == <<chaos, timers, nextTimer, explosions>>

(***************************************************************************)
(* Bounds of the model.                                                    *)
(***************************************************************************)
MaxClock == 1       \* the clock runs 0..MaxClock
MaxSpawns == 1      \* bodies created per peer (objectIdCounter)
MaxTimers == 6      \* setInterval calls in one run
MaxChain == 3       \* explosive barrels dropped in one run
MaxHoles == 1       \* black holes opened in one run
MaxMagnets == 2     \* magnets placed in one run
MaxHoleClock == 3   \* the clock runs 0..MaxHoleClock where black holes live
MaxPending == 2     \* slow-motion and ragdoll timers pending at a time
MaxRagdolls == 1    \* ragdolls created in one run
MaxJoiners == 2     \* peers that join the host's room
MaxEvents == 2      \* events broadcast in one room

Peers == {"A", "B"}
Me == "A"           \* the peer whose chaos orchestrator is modelled
Actors == {"A"}     \* the peers whose player acts; the others only receive
P1 == [x |-> 100, y |-> 100]

NULL == "null"
Undefined == <<>>
NoTimer == 0

Truthy(v) == v # NULL /\ v # ""
Has(r, k) == k \in DOMAIN r
Get(r, k, default) == IF Has(r, k) THEN r[k] ELSE default
\* { ...a, ...b }
Merge(a, b) ==
    [k \in (DOMAIN a) \cup (DOMAIN b) |-> IF k \in DOMAIN b THEN b[k] ELSE a[k]]

Pos(x, y) == [x |-> x, y |-> y]
Origin == Pos(0, 0)
\* The places a player clicks.
Points == {Pos(100, 100), Pos(130, 100)}
\* The archetypes a player selects in the palette (of the eight).
SelectableTypes == {"box", "explosive"}

(***************************************************************************)
(* constants.js                                                            *)
(***************************************************************************)
CANVAS_WIDTH == 1200
CANVAS_HEIGHT == 800
PHYSICS_GRAVITY == Pos(0, 1)
PUSH_FORCE == 50
PUSH_RADIUS == 120
EXPLODE_FORCE == 300
EXPLODE_RADIUS == 150
BARREL_FORCE == 500
BARREL_RADIUS == 200
SYNC_EVENTS == {"spawn", "force", "tool", "gravity", "cursor"}
ObjectTypes ==
    {"box", "circle", "triangle", "plank", "balloon", "explosive", "jelly", "anvil"}

\* Width and height of a body's bounds when created, by label.
BodyWidth(label) ==
    CASE label = "box" -> 50
      [] label = "circle" -> 50
      [] label = "triangle" -> 38
      [] label = "plank" -> 150
      [] label = "balloon" -> 60
      [] label = "explosive" -> 40
      [] label = "jelly" -> 60
      [] label = "anvil" -> 105
      [] OTHER -> 60
BodyHeight(label) ==
    CASE label = "box" -> 50
      [] label = "circle" -> 50
      [] label = "triangle" -> 43
      [] label = "plank" -> 20
      [] label = "balloon" -> 60
      [] label = "explosive" -> 60
      [] label = "jelly" -> 60
      [] label = "anvil" -> 65
      [] OTHER -> 60

(***************************************************************************)
(* objects.js                                                              *)
(***************************************************************************)
generateId(t, counter) == "obj_" \o ToString(t) \o "_" \o ToString(counter)

NewBody(label, position, id) ==
    [customId |-> id, label |-> label, position |-> position,
     isStatic |-> FALSE, isExplosive |-> label = "explosive",
     isFloaty |-> label = "balloon", customScale |-> 0, applied |-> 0]

StaticBody(label, position) ==
    [customId |-> NULL, label |-> label, position |-> position,
     isStatic |-> TRUE, isExplosive |-> FALSE, isFloaty |-> FALSE,
     customScale |-> 0, applied |-> 0]

\* The label createObject gives a body: an unknown type makes a box.
\* createObject whose switch has only its default branch.
createObjectLabel_Box(type) == "box"

createObjectLabel(type) == IF type \in ObjectTypes THEN type ELSE "box"

createObject(type, position, id) == NewBody(createObjectLabel(type), position, id)

(***************************************************************************)
(* engine.js: w is one peer's engine, w.engine says whether initEngine ran *)
(* and w.timeScale is engine.timing.timeScale in thousandths               *)
(***************************************************************************)
NoEngine ==
    [engine |-> FALSE, gravity |-> PHYSICS_GRAVITY, bodies |-> <<>>,
     objectIdCounter |-> 0, timeScale |-> 1000]

initEngine(w) ==
    [w EXCEPT !.engine = TRUE, !.gravity = PHYSICS_GRAVITY, !.timeScale = 1000,
              !.bodies = << StaticBody("ground", Pos(600, 830)),
                            StaticBody("wall", Pos(-30, 400)),
                            StaticBody("wall", Pos(1230, 400)),
                            StaticBody("ceiling", Pos(600, -30)) >>]

getAllBodies(w) == IF w.engine THEN w.bodies ELSE <<>>

addBody(w, body) == IF w.engine THEN [w EXCEPT !.bodies = Append(@, body)] ELSE w

removeBody(w, id) ==
    IF w.engine
    THEN [w EXCEPT !.bodies = SelectSeq(@, LAMBDA b : b.customId # id)]
    ELSE w

clearWorld(w) ==
    IF w.engine
    THEN [w EXCEPT !.bodies = SelectSeq(@, LAMBDA b : b.isStatic)]
    ELSE w

\* A setGravity that flips the engine's vector instead of storing g.
setGravity_Flip(w, g) ==
    IF w.engine THEN [w EXCEPT !.gravity = Pos(g.x, -(@.y))] ELSE w

setGravity(w, g) == IF w.engine THEN [w EXCEPT !.gravity = Pos(g.x, g.y)] ELSE w

getGravity(w) == IF w.engine THEN w.gravity ELSE PHYSICS_GRAVITY

\* engine.gravity.y *= -1; the new vector is returned, undefined with no engine.
flipGravity(w) ==
    IF w.engine
    THEN [w |-> [w EXCEPT !.gravity = Pos(@.x, -(@.y))],
          result |-> Pos(w.gravity.x, -(w.gravity.y))]
    ELSE [w |-> w, result |-> Undefined]

\* customScale k stands for the cumulative scale 1.5^k = 3^k / 2^k (an
\* absent customScale reads as 1, k = 0); `applied` is the exponent of the
\* factors Matter.Body.scale has applied to the body's geometry.
RECURSIVE Pow(_, _)
Pow(b, n) == IF n <= 0 THEN 1 ELSE b * Pow(b, n - 1)
ScaleNum(k) == IF k >= 0 THEN Pow(3, k) ELSE Pow(2, -k)
ScaleDen(k) == IF k >= 0 THEN Pow(2, k) ELSE Pow(3, -k)
Abs(n) == IF n < 0 THEN -n ELSE n

\* Matter.Bounds.contains(body.bounds, position)
BoundsContain(b, position) ==
    /\ 2 * Abs(position.x - b.position.x) * ScaleDen(b.applied)
          <= BodyWidth(b.label) * ScaleNum(b.applied)
    /\ 2 * Abs(position.y - b.position.y) * ScaleDen(b.applied)
          <= BodyHeight(b.label) * ScaleNum(b.applied)

\* Index of the first non-static body whose bounds contain the position, 0 if none.
getBodyAtPosition(w, position) ==
    IF ~w.engine THEN 0
    ELSE LET hits == {i \in 1..Len(w.bodies) :
                        ~w.bodies[i].isStatic /\ BoundsContain(w.bodies[i], position)}
         IN IF hits = {} THEN 0 ELSE CHOOSE i \in hits : \A j \in hits : i <= j

Dist2(a, b) == (a.x - b.x) * (a.x - b.x) + (a.y - b.y) * (a.y - b.y)

(***************************************************************************)
(* tools.js.  Every tool returns the engine after the call (w), the        *)
(* result handed to the caller, the call that was made (call), whether     *)
(* the call raised, and the visual feedback it asked the window for        *)
(* (feedback: the window functions called).                                *)
(***************************************************************************)
NoCall == [tool |-> "none"]

\* Indices of the non-static bodies closer than radius to the position.
BodiesWithin(w, position, radius) ==
    {i \in 1..Len(getAllBodies(w)) :
        /\ ~w.bodies[i].isStatic
        /\ Dist2(w.bodies[i].position, position) < radius * radius}

toolPush(w, position, direction, force) ==
    LET hit == BodiesWithin(w, position, PUSH_RADIUS)
    IN [w |-> w,
        result |-> [position |-> position, direction |-> direction,
                    force |-> force, affectedCount |-> Cardinality(hit)],
        call |-> [tool |-> "push", position |-> position,
                  direction |-> direction, force |-> force],
        raised |-> FALSE,
        feedback |-> IF hit # {} THEN {"spawnParticles", "triggerScreenShake"}
                     ELSE {}]

\* Vector.magnitude, in tenths of a pixel (rounded down).
RECURSIVE SqrtBetween(_, _, _)
SqrtBetween(n, lo, hi) ==
    IF lo >= hi THEN lo
    ELSE LET mid == (lo + hi + 1) \div 2
         IN IF mid * mid <= n THEN SqrtBetween(n, mid, hi)
            ELSE SqrtBetween(n, lo, mid - 1)
Distance10(a, b) == SqrtBetween(100 * Dist2(a, b), 0, 20000)

\* The magnitude of the explosion force on a body at distance d10 (tenths):
\* force * falloff * 1.2 with falloff = 1 - distance / radius, as the
\* fraction num / den (of thousandths).
BlastForce(force, radius, d10) ==
    [num |-> 12 * force * (10 * radius - d10), den |-> 100 * radius]

\* A toolExplode whose force does not fall off with the distance.
toolExplode_NoFalloff(w, position, force, radius) ==
    LET hit == {i \in BodiesWithin(w, position, radius) :
                    Dist2(w.bodies[i].position, position) > 0}
    IN [w |-> w,
        result |-> [position |-> position, force |-> force, radius |-> radius,
                    affectedCount |-> Cardinality(hit)],
        call |-> [tool |-> "explode", position |-> position, force |-> force,
                  radius |-> radius],
        raised |-> FALSE,
        feedback |-> {"spawnParticles", "triggerScreenShake"},
        impulses |-> {[body |-> i, force |-> BlastForce(force, radius, 0)] :
                        i \in hit}]

\* impulses: the applyForce calls made, by index of the body in the world.
toolExplode(w, position, force, radius) ==
    LET hit == {i \in BodiesWithin(w, position, radius) :
                    Dist2(w.bodies[i].position, position) > 0}
    IN [w |-> w,
        result |-> [position |-> position, force |-> force, radius |-> radius,
                    affectedCount |-> Cardinality(hit)],
        call |-> [tool |-> "explode", position |-> position, force |-> force,
                  radius |-> radius],
        raised |-> FALSE,
        feedback |-> {"spawnParticles", "triggerScreenShake"},
        impulses |-> {[body |-> i,
                       force |-> BlastForce(force, radius,
                                    Distance10(w.bodies[i].position, position))] :
                        i \in hit}]

\* window.showChaosStatus is installed while the page is mounted, so reading
\* newGravity.y of an undefined result raises.
toolGravityFlip(w) ==
    LET f == flipGravity(w)
    IN [w |-> f.w, result |-> f.result, call |-> [tool |-> "gravity"],
        raised |-> f.result = Undefined,
        feedback |-> IF f.result = Undefined THEN {"triggerScreenShake"}
                     ELSE {"triggerScreenShake", "showChaosStatus",
                           "spawnParticles"}]

\* A toolScale that resizes the body before it tests the new scale.
toolScale_ResizeFirst(w, position, grow) ==
    LET i == getBodyAtPosition(w, position)
        call == [tool |-> "scale", position |-> position, grow |-> grow]
    IN IF i = 0
       THEN [w |-> w, result |-> Undefined, call |-> call, raised |-> FALSE,
             feedback |-> {}]
       ELSE LET k == w.bodies[i].customScale + (IF grow THEN 1 ELSE -1)
                w1 == [w EXCEPT !.bodies[i].applied =
                                    @ + (IF grow THEN 1 ELSE -1)]
            IN IF 10 * ScaleNum(k) >= 3 * ScaleDen(k)
                  /\ ScaleNum(k) <= 3 * ScaleDen(k)
               THEN [w |-> [w1 EXCEPT !.bodies[i].customScale = k],
                     result |-> [bodyId |-> w.bodies[i].customId, scale |-> k,
                                 grow |-> grow],
                     call |-> call, raised |-> FALSE,
                     feedback |-> {"spawnParticles"}]
               ELSE [w |-> w1, result |-> Undefined, call |-> call,
                     raised |-> FALSE, feedback |-> {}]

\* A range test with the upper limit only.
ScaleInRange_NoFloor(k) == ScaleNum(k) <= 3 * ScaleDen(k)

\* newScale >= 0.3 && newScale <= 3, for newScale = 1.5^k
ScaleInRange(k) ==
    /\ 10 * ScaleNum(k) >= 3 * ScaleDen(k)
    /\ ScaleNum(k) <= 3 * ScaleDen(k)

toolScale(w, position, grow) ==
    LET i == getBodyAtPosition(w, position)
        call == [tool |-> "scale", position |-> position, grow |-> grow]
    IN IF i # 0 /\ ScaleInRange(w.bodies[i].customScale + (IF grow THEN 1 ELSE -1))
       THEN LET k == w.bodies[i].customScale + (IF grow THEN 1 ELSE -1)
            IN [w |-> [w EXCEPT !.bodies[i].applied =
                                    @ + (IF grow THEN 1 ELSE -1),
                                !.bodies[i].customScale = k],
                result |-> [bodyId |-> w.bodies[i].customId, scale |-> k,
                            grow |-> grow],
                call |-> call, raised |-> FALSE, feedback |-> {"spawnParticles"}]
       ELSE [w |-> w, result |-> Undefined, call |-> call, raised |-> FALSE,
             feedback |-> {}]

toolSpawn(w, type, position, t) ==
    LET id == generateId(t, w.objectIdCounter)
        body == createObject(type, position, id)
    IN [w |-> addBody([w EXCEPT !.objectIdCounter = @ + 1], body),
        result |-> [type |-> type, position |-> position, id |-> id],
        call |-> [tool |-> "spawn", objectType |-> type, position |-> position],
        raised |-> FALSE, feedback |-> {"spawnParticles"}]

executeTool(w, toolId, params, t) ==
    CASE toolId = "spawn" ->
            toolSpawn(w, IF Truthy(Get(params, "objectType", NULL))
                         THEN params.objectType ELSE "box",
                      params.position, t)
      [] toolId = "push" ->
            toolPush(w, params.position, Get(params, "direction", Pos(0, -1)),
                     PUSH_FORCE)
      [] toolId = "explode" ->
            toolExplode(w, params.position, EXPLODE_FORCE, EXPLODE_RADIUS)
      [] toolId = "gravity" -> toolGravityFlip(w)
      [] toolId = "scale" ->
            toolScale(w, params.position, Get(params, "grow", TRUE))
      [] OTHER -> [w |-> w, result |-> Undefined, call |-> NoCall, raised |-> FALSE,
                   feedback |-> {}]

\* handleExplosiveCollision for the explosive body at index i, hit hard enough.
handleExplosiveCollision(w, i) ==
    LET b == w.bodies[i]
        x == toolExplode(w, b.position, BARREL_FORCE, BARREL_RADIUS)
    IN [w |-> removeBody(x.w, b.customId),
        result |-> [position |-> b.position, force |-> BARREL_FORCE,
                    radius |-> BARREL_RADIUS],
        call |-> x.call, raised |-> FALSE, blast |-> x.result,
        impulses |-> x.impulses]

(***************************************************************************)
(* sync.js                                                                 *)
(***************************************************************************)
PlayerIdAt(t) == "player_" \o ToString(t)

getPlayerId(p) ==
    IF Truthy(localPlayerId[p]) THEN localPlayerId[p] ELSE PlayerIdAt(now)

createEvent(p, type, data) ==
    [type |-> type, timestamp |-> now, senderId |-> getPlayerId(p), data |-> data]

syncSpawn(p, objectType, position) ==
    createEvent(p, "spawn", [objectType |-> objectType, position |-> position,
                             rotation |-> 0, options |-> Undefined])

syncForce(p, objectId, position, direction, strength) ==
    createEvent(p, "force", [objectId |-> objectId, position |-> position,
                             direction |-> direction, strength |-> strength])

syncTool(p, toolType, position, params) ==
    createEvent(p, "tool", [toolType |-> toolType, position |-> position,
                            params |-> params])

syncGravity(p, gravity) == createEvent(p, "gravity", [gravity |-> gravity])

syncCursor(p, position, toolId) ==
    createEvent(p, "cursor", [position |-> position, toolId |-> toolId])

Slots == {"onSpawn", "onForce", "onTool", "onGravity", "onCursor"}

\* The slot handleSyncEvent's switch selects, NULL in the default case.
SlotOf(type) ==
    CASE type = "spawn" -> "onSpawn"
      [] type = "force" -> "onForce"
      [] type = "tool" -> "onTool"
      [] type = "gravity" -> "onGravity"
      [] type = "cursor" -> "onCursor"
      [] OTHER -> NULL

\* handleSyncEvent without the `if (handlers.onX)` guards.
handleSyncEvent_Unguarded(p, event, present) ==
    IF event.senderId = getPlayerId(p) THEN <<>>
    ELSE IF SlotOf(event.type) # NULL
         THEN << [slot |-> SlotOf(event.type), data |-> event.data,
                  senderId |-> event.senderId] >>
         ELSE <<>>

\* handleSyncEvent whose default case hands the event to onForce.
handleSyncEvent_DefaultForce(p, event, present) ==
    IF event.senderId = getPlayerId(p) THEN <<>>
    ELSE IF SlotOf(event.type) = NULL
         THEN << [slot |-> "onForce", data |-> event.data,
                  senderId |-> event.senderId] >>
         ELSE IF SlotOf(event.type) \in present
              THEN << [slot |-> SlotOf(event.type), data |-> event.data,
                       senderId |-> event.senderId] >>
              ELSE <<>>

\* The handler invocations handleSyncEvent(event, handlers) makes on peer p,
\* `present` being the slots the handler table holds.
handleSyncEvent(p, event, present) ==
    IF event.senderId = getPlayerId(p) THEN <<>>
    ELSE IF SlotOf(event.type) \in present
         THEN << [slot |-> SlotOf(event.type), data |-> event.data,
                  senderId |-> event.senderId] >>
         ELSE <<>>

(***************************************************************************)
(* chaos.js module state                                                   *)
(***************************************************************************)
ChaosInit ==
    [chaosEnabled |-> FALSE, objectFloodEnabled |-> FALSE,
     suddenRulesEnabled |-> FALSE, autoExplodeEnabled |-> FALSE,
     floodInterval |-> NoTimer, rulesInterval |-> NoTimer,
     explosionCheckInterval |-> NoTimer, currentRule |-> NULL]

\* The rules of RULES the model draws: one (of four) that sets the gravity
\* vector and one (of six) that only moves bodies.
RULES == {"GRAVITY FLIP", "CHAOS SPIN"}
\* Where the flood drops a body, and the types it draws (of the eight).
FloodPoint == Pos(100, 50)
FloodTypes == {"box", "explosive"}

\* The chaos module's state c: its variables (m), the host's timer table,
\* the next timer handle, the host's pending one-shot timers, and the engine
\* the module acts on (w).
setInterval(c, kind, intensity, ms) ==
    [c EXCEPT !.timers = @ \cup {[id |-> c.nextTimer, kind |-> kind,
                                  intensity |-> intensity, ms |-> ms]},
              !.nextTimer = @ + 1]

clearInterval(c, handle) == [c EXCEPT !.timers = {t \in @ : t.id # handle}]

\* startObjectFlood without `if (floodInterval) clearInterval(floodInterval)`.
startObjectFlood_NoClear(c, intensity, ms) ==
    [setInterval(c, "flood", intensity, ms)
        EXCEPT !.m.objectFloodEnabled = TRUE, !.m.floodInterval = c.nextTimer]

startObjectFlood(c, intensity, ms) ==
    LET c1 == IF c.m.floodInterval # NoTimer
              THEN clearInterval(c, c.m.floodInterval) ELSE c
    IN [setInterval(c1, "flood", intensity, ms)
            EXCEPT !.m.objectFloodEnabled = TRUE, !.m.floodInterval = c1.nextTimer]

\* A stopObjectFlood that resets the flag and leaves the timer running.
stopObjectFlood_FlagOnly(c) == [c EXCEPT !.m.objectFloodEnabled = FALSE]

\* A stopObjectFlood that stops the rules loop too.
stopObjectFlood_AndRules(c) ==
    LET c1 == IF c.m.floodInterval # NoTimer
              THEN [clearInterval(c, c.m.floodInterval)
                        EXCEPT !.m.floodInterval = NoTimer]
              ELSE c
        c2 == IF c1.m.rulesInterval # NoTimer
              THEN [clearInterval(c1, c1.m.rulesInterval)
                        EXCEPT !.m.rulesInterval = NoTimer]
              ELSE c1
    IN [c2 EXCEPT !.m.objectFloodEnabled = FALSE]

stopObjectFlood(c) ==
    LET c1 == IF c.m.floodInterval # NoTimer
              THEN [clearInterval(c, c.m.floodInterval)
                        EXCEPT !.m.floodInterval = NoTimer]
              ELSE c
    IN [c1 EXCEPT !.m.objectFloodEnabled = FALSE]

\* rule.action()
RuleAction(w, rule) ==
    CASE rule = "GRAVITY FLIP" ->
            setGravity(w, Pos(getGravity(w).x, -(getGravity(w).y)))
      [] OTHER -> w

applyRandomRule(c, rule) ==
    [c EXCEPT !.m.currentRule = rule, !.w = RuleAction(@, rule)]

startSuddenRules(c, ms, rule) ==
    LET c1 == IF c.m.rulesInterval # NoTimer
              THEN clearInterval(c, c.m.rulesInterval) ELSE c
        c2 == applyRandomRule([c1 EXCEPT !.m.suddenRulesEnabled = TRUE], rule)
    IN [setInterval(c2, "rules", 0, ms) EXCEPT !.m.rulesInterval = c2.nextTimer]

\* A stopSuddenRules that does not reset the gravity.
stopSuddenRules_KeepGravity(c) ==
    LET c1 == IF c.m.rulesInterval # NoTimer
              THEN [clearInterval(c, c.m.rulesInterval)
                        EXCEPT !.m.rulesInterval = NoTimer]
              ELSE c
    IN [c1 EXCEPT !.m.suddenRulesEnabled = FALSE]

stopSuddenRules(c) ==
    LET c1 == IF c.m.rulesInterval # NoTimer
              THEN [clearInterval(c, c.m.rulesInterval)
                        EXCEPT !.m.rulesInterval = NoTimer]
              ELSE c
    IN [c1 EXCEPT !.m.suddenRulesEnabled = FALSE,
                  !.w = setGravity(@, Pos(0, 1))]

startExplosionChain(c) ==
    LET c1 == IF c.m.explosionCheckInterval # NoTimer
              THEN clearInterval(c, c.m.explosionCheckInterval) ELSE c
    IN [setInterval(c1, "watcher", 0, 100)
            EXCEPT !.m.autoExplodeEnabled = TRUE,
                   !.m.explosionCheckInterval = c1.nextTimer]

\* setTimeout(callback, delay): t describes the callback.
setTimeout(c, t) == [c EXCEPT !.timeouts = @ (+) SetToBag({t})]

\* The host takes a one-shot timer off its table when it runs it.
runTimeout(c, t) == [c EXCEPT !.timeouts = @ (-) SetToBag({t})]

\* explodeBody(body): the blast, the removal of the body (nothing happens if
\* it is not in the world), and the rescan scheduled 50 ms later.  There is
\* no test that the body is still in the world.
explodeBody(c, body) ==
    LET x == toolExplode(c.w, body.position, BARREL_FORCE, BARREL_RADIUS)
    IN setTimeout([c EXCEPT !.w = removeBody(x.w, body.customId)],
                  [kind |-> "rescan", pos |-> body.position,
                   radius |-> BARREL_RADIUS])

\* dist < radius * 0.8
InTriggerRange(position, pos, radius) ==
    25 * Dist2(position, pos) < 16 * radius * radius

\* The explosive bodies of the world within the triggering radius.
NearbyExplosives(w, pos, radius) ==
    {i \in 1..Len(getAllBodies(w)) :
        /\ w.bodies[i].isExplosive
        /\ ~w.bodies[i].isStatic
        /\ InTriggerRange(w.bodies[i].position, pos, radius)}

\* A rescan that is scheduled again when it finds no explosive nearby.
rescan_Polling(c, t) ==
    LET near == NearbyExplosives(c.w, t.pos, t.radius)
    IN IF near = {} THEN setTimeout(c, t)
       ELSE [c EXCEPT !.timeouts = @ (+) SetToBag(
                {[kind |-> "trigger", body |-> c.w.bodies[i]] : i \in near})]

\* The callback explodeBody schedules: every living explosive within the
\* triggering radius gets a delayed explodeBody of its own.
rescan(c, t) ==
    LET near == NearbyExplosives(c.w, t.pos, t.radius)
    IN [c EXCEPT !.timeouts = @ (+) SetToBag(
            {[kind |-> "trigger", body |-> c.w.bodies[i]] : i \in near})]

\* A stopExplosionChain that cancels the pending one-shot timers too.
stopExplosionChain_CancelAll(c) ==
    LET c1 == IF c.m.explosionCheckInterval # NoTimer
              THEN [clearInterval(c, c.m.explosionCheckInterval)
                        EXCEPT !.m.explosionCheckInterval = NoTimer]
              ELSE c
    IN [c1 EXCEPT !.m.autoExplodeEnabled = FALSE, !.timeouts = EmptyBag]

stopExplosionChain(c) ==
    LET c1 == IF c.m.explosionCheckInterval # NoTimer
              THEN [clearInterval(c, c.m.explosionCheckInterval)
                        EXCEPT !.m.explosionCheckInterval = NoTimer]
              ELSE c
    IN [c1 EXCEPT !.m.autoExplodeEnabled = FALSE]

\* An enableChaos that does not start the explosion watcher.
enableChaos_NoWatcher(c, rule) ==
    startSuddenRules(
        startObjectFlood([c EXCEPT !.m.chaosEnabled = TRUE], 3, 3000),
        12000, rule)

enableChaos(c, rule) ==
    startExplosionChain(
        startSuddenRules(
            startObjectFlood([c EXCEPT !.m.chaosEnabled = TRUE], 3, 3000),
            12000, rule))

\* A disableChaos that leaves the explosion watcher running.
disableChaos_KeepWatcher(c) ==
    stopSuddenRules(stopObjectFlood([c EXCEPT !.m.chaosEnabled = FALSE]))

disableChaos(c) ==
    stopExplosionChain(
        stopSuddenRules(stopObjectFlood([c EXCEPT !.m.chaosEnabled = FALSE])))

\* toggleChaos(): the state after the call; it returns c'.m.chaosEnabled.
toggleChaos(c, rule) ==
    IF c.m.chaosEnabled THEN disableChaos(c) ELSE enableChaos(c, rule)

getChaosState(c) ==
    [chaos |-> c.m.chaosEnabled, flood |-> c.m.objectFloodEnabled,
     rules |-> c.m.suddenRulesEnabled, explosions |-> c.m.autoExplodeEnabled,
     currentRule |-> c.m.currentRule]

\* The body of the flood timer's callback: `intensity` bodies, of the types
\* drawn, are spawned one after the other.
RECURSIVE floodCallback(_, _, _, _)
floodCallback(w, types, i, t) ==
    IF i > Len(types) THEN w
    ELSE floodCallback(toolSpawn(w, types[i], FloodPoint, t).w, types, i + 1, t)

(***************************************************************************)
(* special.js.  The state s of the module: its variables (m: the id        *)
(* counter, the black-hole objects ever created (heap), the ids of the     *)
(* active ones, the active magnets), the engine (w), the host's pending    *)
(* one-shot timers, the history (log), and the updates the running call of *)
(* updateSpecialObjects has made (order).  Lifetimes and the clock count   *)
(* steps of 3000 ms.  Velocities are not part of the model: a pull or an   *)
(* impulse is recorded, not integrated.                                    *)
(***************************************************************************)
SpecialInit ==
    [objectIdCounter |-> 0, heap |-> <<>>, activeBlackHoles |-> <<>>,
     activeMagnets |-> <<>>, isSlowMo |-> FALSE, isFrozen |-> FALSE]

DefaultLifetime == 2        \* options.lifetime || 6000
DefaultPullRadius == 350    \* options.pullRadius || 350

generateSpecialId(t, counter) ==
    "special_" \o ToString(t) \o "_" \o ToString(counter)

SpecialBody(label, position, id) ==
    [StaticBody(label, position) EXCEPT !.customId = id]

\* The bodies a black hole or a magnet acts on.
Movable(w) ==
    {i \in 1..Len(getAllBodies(w)) :
        ~w.bodies[i].isStatic /\ w.bodies[i].label # "blackhole"}

\* A createBlackHole that sets no timer.
createBlackHole_NoTimer(s, x, y, options, t) ==
    IF ~s.w.engine THEN s
    ELSE LET id == generateSpecialId(t, s.m.objectIdCounter)
             body == SpecialBody("blackhole", Pos(x, y), id)
             blackHole ==
                [body |-> body,
                 pullRadius |-> IF Get(options, "pullRadius", 0) # 0
                                THEN options.pullRadius ELSE DefaultPullRadius,
                 createdAt |-> t,
                 lifetime |-> IF Get(options, "lifetime", 0) # 0
                              THEN options.lifetime ELSE DefaultLifetime,
                 x |-> x, y |-> y, consumedBodies |-> {}]
         IN [s EXCEPT !.m.objectIdCounter = @ + 1,
                      !.w.bodies = Append(@, body),
                      !.m.heap = (id :> blackHole) @@ @,
                      !.m.activeBlackHoles = Append(@, id)]

\* createBlackHole(x, y, options) at time t; it returns null with no engine.
createBlackHole(s, x, y, options, t) ==
    IF ~s.w.engine THEN s
    ELSE LET id == generateSpecialId(t, s.m.objectIdCounter)
             body == SpecialBody("blackhole", Pos(x, y), id)
             lifetime == IF Get(options, "lifetime", 0) # 0
                         THEN options.lifetime ELSE DefaultLifetime
             blackHole ==
                [body |-> body,
                 pullRadius |-> IF Get(options, "pullRadius", 0) # 0
                                THEN options.pullRadius ELSE DefaultPullRadius,
                 createdAt |-> t, lifetime |-> lifetime, x |-> x, y |-> y,
                 consumedBodies |-> {}]
         IN [s EXCEPT !.m.objectIdCounter = @ + 1,
                      !.w.bodies = Append(@, body),
                      !.m.heap = (id :> blackHole) @@ @,
                      !.m.activeBlackHoles = Append(@, id),
                      !.timeouts = @ (+) SetToBag({[kind |-> "blackhole",
                                                    hole |-> id,
                                                    due |-> t + lifetime]})]

\* explodeBlackHole(blackHole) at time t.  blackHole.body is never null, so
\* the function always goes on: the bodies consumed or closer than twice the
\* pull radius get an impulse and a spin, the consumed ones are scattered
\* around the hole (by `scatter`) and get a velocity, the feedback is shown,
\* the hole's body leaves the world and the hole the active list.
explodeBlackHole(s, id, t, scatter) ==
    LET bh == s.m.heap[id]
        pos == Pos(bh.x, bh.y)
        consumed == {i \in Movable(s.w) :
                        s.w.bodies[i].customId \in bh.consumedBodies}
        hit == {i \in Movable(s.w) :
                    \/ i \in consumed
                    \/ Dist2(s.w.bodies[i].position, pos)
                            < 4 * bh.pullRadius * bh.pullRadius}
        moved == [i \in 1..Len(s.w.bodies) |->
                    IF i \in consumed
                    THEN [s.w.bodies[i] EXCEPT
                            !.position = Pos(pos.x + scatter.x, pos.y + scatter.y)]
                    ELSE s.w.bodies[i]]
        event == [hole |-> id,
                  active |-> \E n \in 1..Len(s.m.activeBlackHoles) :
                                s.m.activeBlackHoles[n] = id,
                  cleared |-> id \in s.log.cleared,
                  impulses |-> {s.w.bodies[i].customId : i \in hit},
                  teleported |-> {s.w.bodies[i].customId : i \in consumed},
                  feedback |-> TRUE]
    IN [s EXCEPT !.w = removeBody(IF s.w.engine
                                  THEN [s.w EXCEPT !.bodies = moved] ELSE s.w, id),
                 !.m.activeBlackHoles = SelectSeq(@, LAMBDA h : h # id),
                 !.log.exploded = @ (+) SetToBag({event})]

\* now - bh.createdAt > bh.lifetime, and its replacement by a test that
\* holds as soon as the hole exists.
Expired_AtOnce(bh, t) == t - bh.createdAt >= 0
Expired(bh, t) == t - bh.createdAt > bh.lifetime

\* The pull of one black hole: the bodies closer than 80 are consumed.
pullBodies(s, id) ==
    LET bh == s.m.heap[id]
        close == {i \in Movable(s.w) :
                    Dist2(s.w.bodies[i].position, bh.body.position) < 80 * 80}
    IN [s EXCEPT !.m.heap[id].consumedBodies =
                    @ \cup {s.w.bodies[i].customId : i \in close}]

\* The callback of updateBlackHoles' filter, run on the holes ids[i..].
RECURSIVE updateBlackHolesFrom(_, _, _, _, _)
updateBlackHolesFrom(s, ids, i, t, scatter) ==
    IF i > Len(ids) THEN s
    ELSE LET s1 == [s EXCEPT !.order =
                        Append(@, [kind |-> "blackhole", id |-> ids[i]])]
         IN updateBlackHolesFrom(
                IF Expired(s1.m.heap[ids[i]], t)
                THEN explodeBlackHole(s1, ids[i], t, scatter)
                ELSE pullBodies(s1, ids[i]),
                ids, i + 1, t, scatter)

\* updateBlackHoles() at time t: nothing with no body in the world; else the
\* active list becomes what the filter kept of the list it started on.
updateBlackHoles(s, t, scatter) ==
    IF Len(getAllBodies(s.w)) = 0 THEN s
    ELSE LET ids == s.m.activeBlackHoles
             s1 == updateBlackHolesFrom(s, ids, 1, t, scatter)
         IN [s1 EXCEPT !.m.activeBlackHoles =
                SelectSeq(ids, LAMBDA h : ~Expired(s.m.heap[h], t))]

\* createMagnet(x, y, polarity) at time t; it returns null with no engine.
createMagnet(s, x, y, polarity, t) ==
    IF ~s.w.engine THEN s
    ELSE LET body == SpecialBody("magnet", Pos(x, y),
                                 generateSpecialId(t, s.m.objectIdCounter))
         IN [s EXCEPT !.m.objectIdCounter = @ + 1,
                      !.w.bodies = Append(@, body),
                      !.m.activeMagnets =
                            Append(@, [body |-> body, polarity |-> polarity])]

\* updateMagnets(): nothing with no body in the world; else every magnet has
\* a body with a position, is updated in its turn, and stays.
updateMagnets(s) ==
    IF Len(getAllBodies(s.w)) = 0 THEN s
    ELSE [s EXCEPT !.m.activeMagnets = SelectSeq(@, LAMBDA magnet : TRUE),
                   !.order = @ \o [n \in 1..Len(s.m.activeMagnets) |->
                                [kind |-> "magnet",
                                 id |-> s.m.activeMagnets[n].body.customId]]]

magnetMadness(s, t) ==
    IF ~s.w.engine THEN s
    ELSE createMagnet(createMagnet(s, 150, CANVAS_HEIGHT \div 2, 1, t),
                      CANVAS_WIDTH - 150, CANVAS_HEIGHT \div 2, -1, t)

\* A clearSpecialObjects that leaves the magnets alone.
clearSpecialObjects_HolesOnly(s) ==
    LET holes == {s.m.activeBlackHoles[n] : n \in 1..Len(s.m.activeBlackHoles)}
    IN [s EXCEPT !.w = IF s.w.engine
                       THEN [@ EXCEPT !.bodies =
                                SelectSeq(@, LAMBDA b : b.customId \notin holes)]
                       ELSE @,
                 !.m.activeBlackHoles = <<>>,
                 !.log.cleared = @ \cup holes]

\* clearSpecialObjects(): the bodies of the active holes and magnets leave
\* the world and both lists are emptied.  No timer is cancelled.
clearSpecialObjects(s) ==
    LET holes == {s.m.activeBlackHoles[n] : n \in 1..Len(s.m.activeBlackHoles)}
        magnets == {s.m.activeMagnets[n].body.customId :
                        n \in 1..Len(s.m.activeMagnets)}
    IN [s EXCEPT !.w = IF s.w.engine
                       THEN [@ EXCEPT !.bodies =
                                SelectSeq(@, LAMBDA b :
                                    b.customId \notin holes \cup magnets)]
                       ELSE @,
                 !.m.activeBlackHoles = <<>>,
                 !.m.activeMagnets = <<>>,
                 !.log.cleared = @ \cup holes]

\* An updateSpecialObjects that updates the magnets first.
updateSpecialObjects_MagnetsFirst(s, t, scatter) ==
    updateBlackHoles(updateMagnets(s), t, scatter)

updateSpecialObjects(s, t, scatter) ==
    updateMagnets(updateBlackHoles(s, t, scatter))

\* The six parts of a ragdoll around (x, y), for s = scale * 1.5 = sz / 2.
RagdollParts(x, y, sz) ==
    << NewBody("ragdoll-head", Pos(x, y - 20 * sz), NULL),
       NewBody("ragdoll-torso", Pos(x, y), NULL),
       NewBody("ragdoll-arm", Pos(x - (25 * sz) \div 2, y - 6 * sz), NULL),
       NewBody("ragdoll-arm", Pos(x + (25 * sz) \div 2, y - 6 * sz), NULL),
       NewBody("ragdoll-leg", Pos(x - 4 * sz, y + (35 * sz) \div 2), NULL),
       NewBody("ragdoll-leg", Pos(x + 4 * sz, y + (35 * sz) \div 2), NULL) >>

\* createRagdoll(x, y, scale), for scale = sz / 3; null with no engine.
createRagdoll(s, x, y, sz) ==
    IF ~s.w.engine THEN s
    ELSE [s EXCEPT !.w.bodies = @ \o RagdollParts(x, y, sz)]

\* ragdollRain(count): count timers, one ragdoll each; nothing with no engine.
ragdollRain(s, count) ==
    IF ~s.w.engine THEN s
    ELSE [s EXCEPT !.timeouts = @ (+) [t \in {[kind |-> "ragdoll"]} |-> count]]

\* A toggleSlowMotion that does not look for the engine.
toggleSlowMotion_NoGuard(s) ==
    IF s.m.isSlowMo
    THEN [s EXCEPT !.w.timeScale = 1000, !.m.isSlowMo = FALSE]
    ELSE [s EXCEPT !.w.timeScale = 200, !.m.isSlowMo = TRUE]

\* toggleSlowMotion(): it returns s'.m.isSlowMo, false with no engine.
toggleSlowMotion(s) ==
    IF ~s.w.engine THEN s
    ELSE IF s.m.isSlowMo
         THEN [s EXCEPT !.w.timeScale = 1000, !.m.isSlowMo = FALSE]
         ELSE [s EXCEPT !.w.timeScale = 200, !.m.isSlowMo = TRUE]

\* toggleFreeze(): it returns s'.m.isFrozen, false with no engine.
toggleFreeze(s) ==
    IF ~s.w.engine THEN s
    ELSE IF s.m.isFrozen
         THEN [s EXCEPT !.w.timeScale = 1000, !.m.isFrozen = FALSE]
         ELSE [s EXCEPT !.w.timeScale = 0, !.m.isFrozen = TRUE]

\* dramaticSlowMo(durationMs): the timer that ends it is set only with an
\* engine.
dramaticSlowMo(s) ==
    IF ~s.w.engine THEN s
    ELSE [s EXCEPT !.w.timeScale = 100, !.m.isSlowMo = TRUE,
                   !.timeouts = @ (+) SetToBag({[kind |-> "slowmo"]})]

\* The callback of dramaticSlowMo's timer.
endSlowMo(s) ==
    [s EXCEPT !.w.timeScale = IF s.w.engine THEN 1000 ELSE @,
              !.m.isSlowMo = FALSE]

(***************************************************************************)
(* peer.js, on every peer of one room.  Peer 0 creates the room, the peers *)
(* 1..MaxJoiners join it.  n is the state of the room: for every peer its  *)
(* module variables (peer: whether the Peer object exists, isHost,         *)
(* connections: the remote ids of its open connections), the data sent and *)
(* not yet received (chan), and the history: the calls of the message      *)
(* callback (delivered), the relays made, and for every broadcast the      *)
(* peers that were connected when it was made (owed).                      *)
(***************************************************************************)
Host == 0
RoomPeers == 0..MaxJoiners

NetInit ==
    [peers |-> [i \in RoomPeers |->
                    [peer |-> FALSE, isHost |-> FALSE, connections |-> <<>>,
                     roomId |-> NULL, peerId |-> NULL, pending |-> "none",
                     left |-> FALSE]],
     chan |-> EmptyBag, delivered |-> EmptyBag, relays |-> {}, owed |-> {},
     seq |-> 0]

\* conn.send(data) on the connection of peer `from` to peer `to`
connSend(n, from, to, data) ==
    [n EXCEPT !.chan = @ (+) SetToBag({[from |-> from, to |-> to, data |-> data]})]

\* connections.forEach(conn => conn.send(data)), for the remote ids in `to`
RECURSIVE sendEach(_, _, _, _)
sendEach(n, from, to, data) ==
    IF to = <<>> THEN n
    ELSE sendEach(connSend(n, from, Head(to), data), from, Tail(to), data)

\* A relayMessage that sends to every connection, the sender's included.
relayMessage_ToAll(n, q, data, senderId) ==
    [sendEach(n, q, n.peers[q].connections, data)
        EXCEPT !.relays = @ \cup {[by |-> q, data |-> data]}]

\* relayMessage(data, senderId) on peer q
relayMessage(n, q, data, senderId) ==
    [sendEach(n, q, SelectSeq(n.peers[q].connections, LAMBDA c : c # senderId),
              data)
        EXCEPT !.relays = @ \cup {[by |-> q, data |-> data]}]

\* broadcast(data) on peer p
broadcast(n, p, data) == sendEach(n, p, n.peers[p].connections, data)

\* createRoom on peer h, up to the peer's 'open'
createRoom(n, h) == [n EXCEPT !.peers[h].peer = TRUE, !.peers[h].isHost = TRUE]

\* handleConnection(conn) on peer q, for a connection to peer r
handleConnection(n, q, r) == [n EXCEPT !.peers[q].connections = Append(@, r)]

\* joinRoom on peer j, up to the connection's 'open': the host gets the
\* 'connection' event, the joiner the 'open' event.
joinRoom(n, j, h) ==
    handleConnection(
        handleConnection([n EXCEPT !.peers[j].peer = TRUE,
                                   !.peers[j].isHost = FALSE], h, j),
        j, h)

\* conn.on('data') on peer q, for data received from peer r: the message
\* callback, then the relay if q is the host.
onData(n, q, data, r) ==
    LET n1 == [n EXCEPT !.delivered = @ (+) SetToBag({[to |-> q, data |-> data]})]
    IN IF n1.peers[q].isHost THEN relayMessage(n1, q, data, r) ELSE n1

\* isConnected() on peer p
isConnected(n, p) ==
    n.peers[p].peer /\ (n.peers[p].isHost \/ Len(n.peers[p].connections) > 0)

(***************************************************************************)
(* page.js GamePage, before it is mounted: room is the promise of          *)
(* createRoom / joinRoom ("none", "pending", "open", "failed"), cursorTool *)
(* is the selectedTool the cursor interval's callback closed over, and     *)
(* failures counts the connection failures reported so far (history),      *)
(* chaosEnabled is GamePage's chaos indicator and chaosOn, floodOn and     *)
(* rulesOn are the indicators of its ChaosPanel.                           *)
(***************************************************************************)
PageInit ==
    [mounted |-> FALSE, room |-> "none", isMultiplayer |-> FALSE,
     specialUpdateRef |-> NoTimer, cursorIntervalRef |-> NoTimer,
     selectedTool |-> "spawn", cursorTool |-> "spawn", failures |-> 0,
     chaosEnabled |-> FALSE,
     chaosOn |-> FALSE, floodOn |-> FALSE, rulesOn |-> FALSE]

(***************************************************************************)
(* The initial state: modules loaded, no page mounted yet.                 *)
(***************************************************************************)
Init ==
    /\ now = 0
    /\ localPlayerId = [p \in Peers |-> NULL]
    /\ multiplayer = [p \in Peers |-> FALSE]
    /\ world = [p \in Peers |-> NoEngine]
    /\ remoteCursors = [p \in Peers |-> {}]
    /\ wire = {}
    /\ firstSender = [p \in Peers |-> NULL]
    /\ last = [op |-> "init"]
    /\ chaos = ChaosInit
    /\ timers = {}
    /\ nextTimer = 1
    /\ timeouts = EmptyBag
    /\ explosions = EmptyBag
    /\ special = SpecialInit
    /\ holeLog = [cleared |-> {}, exploded |-> EmptyBag]
    /\ page = PageInit
    /\ net = NetInit

(***************************************************************************)
(* page.js and GameCanvas: what a player's actions broadcast               *)
(***************************************************************************)
\* An entry of the broadcast log: the event, and (for the properties) the
\* peer that built it and the tool call its sender made.
Entry(p, e, used) == [ev |-> e, from |-> p, used |-> used]

\* handleSpawn(objectType, position)
handleSpawn(p, objectType, position) ==
    IF multiplayer[p] THEN {Entry(p, syncSpawn(p, objectType, position), NoCall)} ELSE {}

\* handleToolUsed(toolId, result)
handleToolUsed(p, toolId, result, used) ==
    IF multiplayer[p]
    THEN IF toolId = "gravity" /\ result # Undefined
         THEN {Entry(p, syncGravity(p, result), used)}
         ELSE {Entry(p, syncTool(p, toolId, Get(result, "position", Origin), result),
                     used)}
    ELSE {}

\* broadcast(event) for each entry of `new`, built by peer p: the entries
\* replace what was in flight.
Broadcast(p, new) ==
    IF new = {}
    THEN UNCHANGED <<wire, firstSender>>
    ELSE /\ wire' = new
         /\ firstSender' =
               IF firstSender[p] = NULL
               THEN [firstSender EXCEPT ![p] = (CHOOSE x \in new : TRUE).ev.senderId]
               ELSE firstSender

\* The clock advances.
Tick ==
    /\ now < MaxClock
    /\ now' = now + 1
    /\ last' = [op |-> "tick"]
    /\ UNCHANGED <<syncVars, world, chaosVars>>

\* GameCanvas mounts: initEngine, isReady.
MountCanvas(p) ==
    /\ ~world[p].engine
    /\ world' = [world EXCEPT ![p] = initEngine(@)]
    /\ last' = [op |-> "initEngine", peer |-> p]
    /\ UNCHANGED <<now, syncVars, chaosVars>>

\* initMultiplayer: setPlayerId, then the room is created or joined (ok) or not.
InitMultiplayer(p, ok) ==
    /\ localPlayerId' = [localPlayerId EXCEPT ![p] = PlayerIdAt(now)]
    /\ multiplayer' = [multiplayer EXCEPT ![p] = ok]
    /\ last' = [op |-> "initMultiplayer", peer |-> p]
    /\ firstSender' = [firstSender EXCEPT ![p] = NULL]
    /\ UNCHANGED <<now, world, remoteCursors, wire, chaosVars>>

\* GameCanvas.handleClick with the spawn tool selected.
ClickSpawn(p, objectType, position) ==
    /\ world[p].engine
    /\ world[p].objectIdCounter < MaxSpawns
    /\ LET x == executeTool(world[p], "spawn",
                            [position |-> position, objectType |-> objectType], now)
       IN /\ world' = [world EXCEPT ![p] = x.w]
          /\ Broadcast(p, handleSpawn(p, objectType, position)
                         \cup handleToolUsed(p, "spawn", x.result, x.call))
          /\ last' = [op |-> "spawn", peer |-> p]
    /\ UNCHANGED <<now, localPlayerId, multiplayer, remoteCursors, chaosVars>>

\* GameCanvas.handleClick with the explode tool selected.
ClickExplode(p, position) ==
    /\ world[p].engine
    /\ LET x == executeTool(world[p], "explode", [position |-> position], now)
       IN /\ world' = [world EXCEPT ![p] = x.w]
          /\ Broadcast(p, handleToolUsed(p, "explode", x.result, x.call))
          /\ last' = [op |-> "explode", peer |-> p, blast |-> x.result,
                      impulses |-> x.impulses]
    /\ UNCHANGED <<now, localPlayerId, multiplayer, remoteCursors, chaosVars>>

\* GameCanvas.handleClick with the gravity tool selected.
ClickGravity(p) ==
    /\ world[p].engine
    /\ LET x == executeTool(world[p], "gravity", Undefined, now)
       IN /\ world' = [world EXCEPT ![p] = x.w]
          /\ Broadcast(p, handleToolUsed(p, "gravity", x.result, x.call))
          /\ last' = [op |-> "gravity", peer |-> p]
    /\ UNCHANGED <<now, localPlayerId, multiplayer, remoteCursors, chaosVars>>

\* GameCanvas.handleClick with the scale tool selected (shift: shrink).
ClickScale(p, position, grow) ==
    /\ world[p].engine
    /\ LET x == executeTool(world[p], "scale",
                            [position |-> position, grow |-> grow], now)
       IN /\ world' = [world EXCEPT ![p] = x.w]
          /\ Broadcast(p, IF x.result # Undefined
                       THEN handleToolUsed(p, "scale", x.result, x.call) ELSE {})
          /\ last' = [op |-> "scale", peer |-> p, position |-> position,
                      grow |-> grow, result |-> x.result,
                      feedback |-> x.feedback]
    /\ UNCHANGED <<now, localPlayerId, multiplayer, remoteCursors, chaosVars>>

\* GameCanvas.handleMouseDown with the push tool selected: the direction is
\* that of the vector from the canvas centre to the click.
MouseDownPush(p, position) ==
    /\ world[p].engine
    /\ LET direction == Pos(position.x - CANVAS_WIDTH \div 2,
                            position.y - CANVAS_HEIGHT \div 2)
           x == toolPush(world[p], position, direction, PUSH_FORCE)
       IN /\ world' = [world EXCEPT ![p] = x.w]
          /\ Broadcast(p, handleToolUsed(p, "push", x.result, x.call))
          /\ last' = [op |-> "push", peer |-> p]
    /\ UNCHANGED <<now, localPlayerId, multiplayer, remoteCursors, chaosVars>>

\* The engine reports a collision of an explosive body, hard enough.
Collision(p, i) ==
    /\ world[p].engine
    /\ i \in 1..Len(world[p].bodies)
    /\ world[p].bodies[i].isExplosive
    /\ LET x == handleExplosiveCollision(world[p], i)
       IN /\ world' = [world EXCEPT ![p] = x.w]
          /\ Broadcast(p, handleToolUsed(p, "explode", x.result, x.call))
          /\ last' = [op |-> "collision", peer |-> p, blast |-> x.blast,
                      impulses |-> x.impulses]
    /\ UNCHANGED <<now, localPlayerId, multiplayer, remoteCursors, chaosVars>>

\* executeTool(toolId, params), as the page's onTool handler calls it for a
\* replicated tool use: the engine may not be there yet.
ExecuteTool(p, toolId, params) ==
    /\ toolId = "spawn" => world[p].objectIdCounter < MaxSpawns
    /\ LET x == executeTool(world[p], toolId, params, now)
       IN /\ world' = [world EXCEPT ![p] = x.w]
          /\ last' = [op |-> "executeTool", peer |-> p, toolId |-> toolId,
                      engine |-> world[p].engine, result |-> x.result,
                      raised |-> x.raised]
    /\ UNCHANGED <<now, syncVars, chaosVars>>

\* The page's 100 ms cursor interval, running once the room is joined; the
\* callback holds the tool selected when the page mounted.
CursorTick(p, position) ==
    /\ multiplayer[p]
    /\ Broadcast(p, {Entry(p, syncCursor(p, position, "spawn"), NoCall)})
    /\ last' = [op |-> "cursor", peer |-> p]
    /\ UNCHANGED <<now, localPlayerId, multiplayer, world, remoteCursors,
                   chaosVars>>

\* syncForce, exported by sync.js and called by no page handler.
SyncForce(p, position) ==
    /\ Broadcast(p, {Entry(p, syncForce(p, NULL, position, Pos(0, -1), PUSH_FORCE),
                        NoCall)})
    /\ last' = [op |-> "syncForce", peer |-> p]
    /\ UNCHANGED <<now, localPlayerId, multiplayer, world, remoteCursors,
                   chaosVars>>

(***************************************************************************)
(* page.js handleMessage: the handler table and what each handler does     *)
(***************************************************************************)
\* The slots of the table handleMessage passes: it has no onForce.
PageHandlers == {"onSpawn", "onTool", "onGravity", "onCursor"}
\* The tables handleSyncEvent is called with: the page's, and a full one
\* whose onForce only takes the call.
HandlerTables == {PageHandlers, Slots}

\* setRemoteCursors(prev => ({ ...prev, [peerId]: {...} }))
SetCursor(cursors, peerId, data) ==
    {c \in cursors : c.peerId # peerId}
        \cup {[peerId |-> peerId, position |-> data.position, toolId |-> data.toolId]}

\* The page handler for one invocation c = (slot, data, senderId), on engine w.
onSpawn(w, c) == toolSpawn(w, Get(c.data, "objectType", NULL), c.data.position, now)

onTool(w, c) ==
    executeTool(w, c.data.toolType,
                Merge([position |-> c.data.position], c.data.params), now)

onGravity(w, c) ==
    [w |-> setGravity(w, c.data.gravity), result |-> Undefined,
     call |-> [tool |-> "setGravity", gravity |-> c.data.gravity], raised |-> FALSE]

RunHandler(w, c) ==
    CASE c.slot = "onSpawn" -> onSpawn(w, c)
      [] c.slot = "onTool" -> onTool(w, c)
      [] c.slot = "onGravity" -> onGravity(w, c)
      [] OTHER -> [w |-> w, result |-> Undefined, call |-> NoCall, raised |-> FALSE]

\* Whether running the handler creates a body (and draws an object id).
Creates(c) ==
    \/ c.slot = "onSpawn"
    \/ c.slot = "onTool" /\ c.data.toolType = "spawn"

\* Events built by a peer outside the model: one of a type the switch does
\* not know, a spawn of a type createObject does not know, a tool use and a
\* gravity change.
ForeignEvents ==
    { [type |-> "chat", timestamp |-> 0, senderId |-> "player_x", data |-> Undefined],
      [type |-> "spawn", timestamp |-> 0, senderId |-> "player_x",
       data |-> [objectType |-> "ragdoll", position |-> Pos(100, 100),
                 rotation |-> 0, options |-> Undefined]],
      [type |-> "tool", timestamp |-> 0, senderId |-> "player_x",
       data |-> [toolType |-> "explode", position |-> Pos(100, 100),
                 params |-> [position |-> Pos(100, 100), force |-> EXPLODE_FORCE,
                             radius |-> EXPLODE_RADIUS, affected |-> 0]]],
      [type |-> "gravity", timestamp |-> 0, senderId |-> "player_x",
       data |-> [gravity |-> Pos(0, -1)]] }

\* handleMessage(data, senderId) -> handleSyncEvent(data, handlers), on peer p:
\* the entry n in flight is delivered to p and leaves the wire.  The peer
\* creates no more than `cap` bodies in a run.
Deliver(p, n, present, cap) ==
    LET calls == handleSyncEvent(p, n.ev, present)
    IN /\ \A i \in 1..Len(calls) :
             Creates(calls[i]) => world[p].objectIdCounter < cap
       /\ wire' = wire \ {n}
       /\ IF calls = <<>>
          THEN /\ UNCHANGED <<world, remoteCursors>>
               /\ last' = [op |-> "handleSyncEvent", peer |-> p, entry |-> n,
                           present |-> present, calls |-> calls,
                           call |-> NoCall, raised |-> FALSE]
          ELSE LET c == calls[1]
                   x == RunHandler(world[p], c)
               IN /\ world' = [world EXCEPT ![p] = x.w]
                  /\ remoteCursors' =
                        IF c.slot = "onCursor"
                        THEN [remoteCursors EXCEPT ![p] = SetCursor(@, c.senderId, c.data)]
                        ELSE remoteCursors
                  /\ last' = [op |-> "handleSyncEvent", peer |-> p, entry |-> n,
                              present |-> present, calls |-> calls,
                              call |-> x.call, raised |-> x.raised]
       /\ UNCHANGED <<now, localPlayerId, multiplayer, firstSender, chaosVars>>

HandleSyncEvent(p, n, present) == Deliver(p, n, present, MaxSpawns)

\* page.js handleMessage on peer p, which may create a body for each event
\* a sender's click sends.
HandleMessage(p, n) == Deliver(p, n, PageHandlers, 2 * MaxSpawns)

\* An event built by a peer outside the model arrives.
ForeignArrives(e) ==
    /\ wire' = {[ev |-> e, from |-> "X", used |-> NoCall]}
    /\ last' = [op |-> "foreign"]
    /\ UNCHANGED <<now, localPlayerId, multiplayer, world, remoteCursors,
                   firstSender, chaosVars>>

(***************************************************************************)
(* chaos.js: the calls the panel and the page make, and the timers' ticks, *)
(* on peer Me                                                              *)
(***************************************************************************)
ChaosState ==
    [m |-> chaos, timers |-> timers, nextTimer |-> nextTimer,
     timeouts |-> timeouts, w |-> world[Me]]

SetChaosState(c) ==
    /\ chaos' = c.m
    /\ timers' = c.timers
    /\ nextTimer' = c.nextTimer
    /\ timeouts' = c.timeouts
    /\ world' = [world EXCEPT ![Me] = c.w]
    /\ UNCHANGED <<special, holeLog, page, net>>

SetChaos(c) == SetChaosState(c) /\ UNCHANGED explosions

TimersOf(kind) == {t \in timers : t.kind = kind}

StartObjectFlood(intensity, ms) ==
    /\ nextTimer <= MaxTimers
    /\ SetChaos(startObjectFlood(ChaosState, intensity, ms))
    /\ last' = [op |-> "startObjectFlood", replaced |-> chaos.floodInterval # NoTimer]
    /\ UNCHANGED <<now, syncVars>>

StopObjectFlood ==
    /\ SetChaos(stopObjectFlood(ChaosState))
    /\ last' = [op |-> "stopObjectFlood"]
    /\ UNCHANGED <<now, syncVars>>

StartSuddenRules(ms, rule) ==
    /\ nextTimer <= MaxTimers
    /\ SetChaos(startSuddenRules(ChaosState, ms, rule))
    /\ last' = [op |-> "startSuddenRules", replaced |-> chaos.rulesInterval # NoTimer]
    /\ UNCHANGED <<now, syncVars>>

StopSuddenRules ==
    /\ SetChaos(stopSuddenRules(ChaosState))
    /\ last' = [op |-> "stopSuddenRules", gravityBefore |-> getGravity(world[Me])]
    /\ UNCHANGED <<now, syncVars>>

StartExplosionChain ==
    /\ nextTimer <= MaxTimers
    /\ SetChaos(startExplosionChain(ChaosState))
    /\ last' = [op |-> "startExplosionChain", replaced |-> chaos.explosionCheckInterval # NoTimer]
    /\ UNCHANGED <<now, syncVars>>

StopExplosionChain ==
    /\ SetChaos(stopExplosionChain(ChaosState))
    /\ last' = [op |-> "stopExplosionChain"]
    /\ UNCHANGED <<now, syncVars>>

EnableChaos(rule) ==
    /\ nextTimer + 2 <= MaxTimers
    /\ SetChaos(enableChaos(ChaosState, rule))
    /\ last' = [op |-> "enableChaos"]
    /\ UNCHANGED <<now, syncVars>>

DisableChaos ==
    /\ SetChaos(disableChaos(ChaosState))
    /\ last' = [op |-> "disableChaos", gravityBefore |-> getGravity(world[Me])]
    /\ UNCHANGED <<now, syncVars>>

\* ChaosPanel.handleChaosToggle: `returned` is what toggleChaos() returned and
\* `before` the chaos flag when it was called; `again` says that the call
\* before this one was a toggleChaos() too, and `was` is the flag before that
\* earlier call.
ToggleChaos(rule) ==
    /\ chaos.chaosEnabled \/ nextTimer + 2 <= MaxTimers
    /\ LET c == toggleChaos(ChaosState, rule)
       IN /\ SetChaos(c)
          /\ last' = [op |-> "toggleChaos", returned |-> c.m.chaosEnabled,
                      before |-> chaos.chaosEnabled,
                      again |-> (last.op = "toggleChaos"),
                      was |-> IF last.op = "toggleChaos"
                              THEN last.before ELSE chaos.chaosEnabled]
    /\ UNCHANGED <<now, syncVars>>

\* The flood timer t fires.
FloodTick(t, types) ==
    /\ t \in TimersOf("flood")
    /\ world[Me].objectIdCounter < MaxSpawns
    /\ Len(types) = t.intensity
    /\ world' = [world EXCEPT ![Me] = floodCallback(@, types, 1, now)]
    /\ last' = [op |-> "floodTick", timer |-> t.id]
    /\ UNCHANGED <<now, syncVars, chaosVars>>

\* The rules timer t fires.
RulesTick(t, rule) ==
    /\ t \in TimersOf("rules")
    /\ SetChaos(applyRandomRule(ChaosState, rule))
    /\ last' = [op |-> "rulesTick", timer |-> t.id]
    /\ UNCHANGED <<now, syncVars>>

\* Whether the body is in the world.
InWorld(w, body) ==
    \E i \in 1..Len(getAllBodies(w)) : w.bodies[i].customId = body.customId

\* The entry of the history for an explodeBody(body) about to run.
Explosion(body, by) ==
    [body |-> body.customId, by |-> by, present |-> InWorld(world[Me], body)]

\* The indices of the bodies the watcher looks at: explosive, not static.
Watched(w) ==
    {i \in 1..Len(getAllBodies(w)) : w.bodies[i].isExplosive /\ ~w.bodies[i].isStatic}

\* The explosion watcher t fires; `fast` is the index of the explosive body
\* found above the speed threshold, 0 if there is none.
WatcherTick(t, fast) ==
    /\ t \in TimersOf("watcher")
    /\ fast \in {0} \cup Watched(world[Me])
    /\ IF fast = 0
       THEN UNCHANGED <<world, chaosVars>>
       ELSE /\ SetChaosState(explodeBody(ChaosState, world[Me].bodies[fast]))
            /\ explosions' = explosions
                    (+) SetToBag({Explosion(world[Me].bodies[fast], "watcher")})
    /\ last' = [op |-> "watcherTick", timer |-> t.id]
    /\ UNCHANGED <<now, syncVars>>

\* A rescan scheduled by explodeBody runs.
RescanFires(t) ==
    /\ t \in BagToSet(timeouts)
    /\ t.kind = "rescan"
    /\ SetChaos(rescan(runTimeout(ChaosState, t), t))
    /\ last' = [op |-> "rescan"]
    /\ UNCHANGED <<now, syncVars>>

\* A delayed trigger scheduled by a rescan runs: explodeBody(other).
TriggerFires(t) ==
    /\ t \in BagToSet(timeouts)
    /\ t.kind = "trigger"
    /\ SetChaosState(explodeBody(runTimeout(ChaosState, t), t.body))
    /\ explosions' = explosions (+) SetToBag({Explosion(t.body, "trigger")})
    /\ last' = [op |-> "trigger"]
    /\ UNCHANGED <<now, syncVars>>

\* One of the timeouts of spawnExplosiveRain runs: a barrel is spawned at
\* the top of the canvas.  The barrels come from left to right, each within
\* the triggering radius of one already there, and none comes once an
\* explosion has happened.
RainDrop(x) ==
    /\ world[Me].engine
    /\ world[Me].objectIdCounter < MaxChain
    /\ explosions = EmptyBag
    /\ \A i \in Watched(world[Me]) : world[Me].bodies[i].position.x < x
    /\ \/ Watched(world[Me]) = {}
       \/ \E i \in Watched(world[Me]) :
             InTriggerRange(Pos(x, 50), world[Me].bodies[i].position, BARREL_RADIUS)
    /\ world' = [world EXCEPT ![Me] = toolSpawn(@, "explosive", Pos(x, 50), now).w]
    /\ last' = [op |-> "rainDrop"]
    /\ UNCHANGED <<now, syncVars, chaosVars>>

(***************************************************************************)
(* special.js: the calls the page makes, the update loop and the black     *)
(* holes' timers, on peer Me                                               *)
(***************************************************************************)
SpecialState ==
    [m |-> special, w |-> world[Me], timeouts |-> timeouts, log |-> holeLog,
     order |-> <<>>]

SetSpecial(s) ==
    /\ special' = s.m
    /\ world' = [world EXCEPT ![Me] = s.w]
    /\ timeouts' = s.timeouts
    /\ holeLog' = s.log
    /\ UNCHANGED <<now, syncVars, loopVars, page, net>>

\* Time passes where black holes live.
Advance ==
    /\ now < MaxHoleClock
    /\ now' = now + 1
    /\ last' = [op |-> "tick"]
    /\ UNCHANGED <<syncVars, world, chaosVars>>

\* The key 'h' and the panel's button: a black hole at `position`.
CreateBlackHole(position, options) ==
    /\ Cardinality(DOMAIN special.heap) < MaxHoles
    /\ now + (IF options.lifetime # 0 THEN options.lifetime ELSE DefaultLifetime)
            <= MaxHoleClock
    /\ SetSpecial(createBlackHole(SpecialState, position.x, position.y, options, now))
    /\ last' = [op |-> "createBlackHole"]

\* ChaosPanel.handleBlackHole: the panel's hole, at the centre of the canvas,
\* which may open next to the holes the keyboard opened.
HandleBlackHole ==
    /\ Cardinality(DOMAIN special.heap) < MaxHoles + 1
    /\ now + 2 <= MaxHoleClock
    /\ SetSpecial(createBlackHole(SpecialState, CANVAS_WIDTH \div 2,
                                  CANVAS_HEIGHT \div 2,
                                  [pullRadius |-> 350, lifetime |-> 2], now))
    /\ last' = [op |-> "handleBlackHole"]

\* engine.js mouse constraint: the player drags the non-static body i to
\* `position`; the world decides nothing else about where bodies are.
DragBody(i, position) ==
    /\ world[Me].engine
    /\ i \in 1..Len(world[Me].bodies)
    /\ ~world[Me].bodies[i].isStatic
    /\ world[Me].bodies[i].position # position
    /\ world' = [world EXCEPT ![Me].bodies[i].position = position]
    /\ last' = [op |-> "drag", body |-> i]
    /\ UNCHANGED <<now, syncVars, chaosVars>>

\* The key 'm'.
MagnetMadness ==
    /\ special.objectIdCounter + 2 <= MaxHoles + MaxMagnets
    /\ SetSpecial(magnetMadness(SpecialState, now))
    /\ last' = [op |-> "magnetMadness"]

\* The page's 16 ms interval runs updateSpecialObjects.
UpdateSpecialObjects(scatter) ==
    /\ SetSpecial(updateSpecialObjects(SpecialState, now, scatter))
    /\ last' = [op |-> "updateSpecialObjects",
                order |-> updateSpecialObjects(SpecialState, now, scatter).order,
                bodies |-> Len(getAllBodies(world[Me])),
                holes |-> special.activeBlackHoles,
                magnets |-> [n \in 1..Len(special.activeMagnets) |->
                                special.activeMagnets[n].body.customId]]

\* The timer createBlackHole set runs, no earlier than its delay.
BlackHoleTimeout(t, scatter) ==
    /\ t \in BagToSet(timeouts)
    /\ t.kind = "blackhole"
    /\ now >= t.due
    /\ SetSpecial(explodeBlackHole(
            [SpecialState EXCEPT !.timeouts = @ (-) SetToBag({t})],
            t.hole, now, scatter))
    /\ last' = [op |-> "explodeBlackHole"]

\* The calls of special.js a page or a panel can make at any time.
CreateMagnet(position, polarity) ==
    /\ special.objectIdCounter < MaxHoles + MaxMagnets
    /\ SetSpecial(createMagnet(SpecialState, position.x, position.y, polarity, now))
    /\ last' = [op |-> "createMagnet"]

CreateRagdoll(x) ==
    /\ Len(world[Me].bodies) < 4 + 6 * MaxRagdolls
    /\ SetSpecial(createRagdoll(SpecialState, x, 150, 2))
    /\ last' = [op |-> "createRagdoll"]

RagdollRain(count) ==
    /\ BagCardinality(timeouts) + count <= MaxPending
    /\ SetSpecial(ragdollRain(SpecialState, count))
    /\ last' = [op |-> "ragdollRain"]

\* One of the timers of ragdollRain runs.
RagdollDrops(t, x) ==
    /\ t \in BagToSet(timeouts)
    /\ t.kind = "ragdoll"
    /\ Len(world[Me].bodies) < 4 + 6 * MaxRagdolls
    /\ SetSpecial(createRagdoll(
            [SpecialState EXCEPT !.timeouts = @ (-) SetToBag({t})], x, 150, 2))
    /\ last' = [op |-> "ragdollDrops"]

ToggleSlowMotion ==
    /\ SetSpecial(toggleSlowMotion(SpecialState))
    /\ last' = [op |-> "toggleSlowMotion"]

ToggleFreeze ==
    /\ SetSpecial(toggleFreeze(SpecialState))
    /\ last' = [op |-> "toggleFreeze"]

DramaticSlowMo ==
    /\ BagCardinality(timeouts) < MaxPending
    /\ SetSpecial(dramaticSlowMo(SpecialState))
    /\ last' = [op |-> "dramaticSlowMo"]

\* The timer of dramaticSlowMo runs.
SlowMoEnds(t) ==
    /\ t \in BagToSet(timeouts)
    /\ t.kind = "slowmo"
    /\ SetSpecial(endSlowMo([SpecialState EXCEPT !.timeouts = @ (-) SetToBag({t})]))
    /\ last' = [op |-> "endSlowMo"]

\* engine.js clearWorld(), on its own.
ClearWorld ==
    /\ world' = [world EXCEPT ![Me] = clearWorld(@)]
    /\ last' = [op |-> "clearWorld"]
    /\ UNCHANGED <<now, syncVars, chaosVars>>

\* page.js handleClearAll and the key 'r': clearWorld(), clearSpecialObjects().
HandleClearAll ==
    /\ SetSpecial(clearSpecialObjects(
            [SpecialState EXCEPT !.w = clearWorld(@)]))
    /\ last' = [op |-> "clearAll"]

(***************************************************************************)
(* page.js GamePage on peer Me: mount, the room promise, teardown          *)
(***************************************************************************)
\* The page mounts.  The effect of lines 87-119 starts the explosion
\* watcher and the special-objects interval; the effect of lines 179-194
\* calls initMultiplayer when the URL asks for a room (multi), which sets
\* the player id and awaits createRoom / joinRoom.
MountPage(multi) ==
    /\ ~page.mounted
    /\ nextTimer + 1 <= MaxTimers
    /\ LET c1 == startExplosionChain(ChaosState)
           c2 == setInterval(c1, "special", 0, 16)
       IN /\ chaos' = c2.m
          /\ timers' = c2.timers
          /\ nextTimer' = c2.nextTimer
          /\ page' = [PageInit EXCEPT
                        !.mounted = TRUE,
                        !.room = IF multi THEN "pending" ELSE "none",
                        !.isMultiplayer = multi,
                        !.specialUpdateRef = c1.nextTimer,
                        !.failures = page.failures]
    /\ localPlayerId' = IF multi
                        THEN [localPlayerId EXCEPT ![Me] = PlayerIdAt(now)]
                        ELSE localPlayerId
    /\ last' = [op |-> "mountPage", multi |-> multi]
    /\ UNCHANGED <<now, multiplayer, world, remoteCursors, wire, firstSender,
                   timeouts, explosions, special, holeLog, net>>

\* A RoomSettles whose failure branch leaves isMultiplayer set (for a room
\* being created isConnected() is true as soon as the peer object exists).
RoomSettles_StayMultiplayer(ok) ==
    /\ page.room = "pending"
    /\ nextTimer <= MaxTimers
    /\ IF ok
       THEN LET c == setInterval(ChaosState, "cursor", 0, 100)
            IN /\ timers' = c.timers
               /\ nextTimer' = c.nextTimer
               /\ page' = [page EXCEPT !.room = "open",
                                       !.cursorIntervalRef = nextTimer,
                                       !.cursorTool = "spawn"]
               /\ multiplayer' = [multiplayer EXCEPT ![Me] = page.mounted]
               /\ UNCHANGED world
       ELSE /\ page' = [page EXCEPT !.room = "failed", !.failures = @ + 1]
            /\ multiplayer' = [multiplayer EXCEPT ![Me] = page.mounted]
            /\ UNCHANGED <<timers, nextTimer, world>>
    /\ last' = [op |-> "roomSettles", ok |-> ok, mounted |-> page.mounted]
    /\ UNCHANGED <<now, localPlayerId, remoteCursors, wire, firstSender,
                   chaos, timeouts, explosions, special, holeLog, net>>

\* The promise of createRoom / joinRoom settles, and initMultiplayer goes on.
\* Resolved: it starts the cursor interval, whose callback holds the
\* selectedTool of the render that called initMultiplayer, the first one.
\* Rejected: it reports the failure (console.error, status message) and sets
\* isMultiplayer to false; handleToolUsed and handleSpawn are then new
\* functions, so GameCanvas's effect (deps [onToolUsed]) runs again and
\* initEngine makes a new engine.  Nothing looks whether the page is still
\* mounted; the state of an unmounted page cannot be set.
RoomSettles(ok) ==
    /\ page.room = "pending"
    /\ nextTimer <= MaxTimers
    /\ IF ok
       THEN LET c == setInterval(ChaosState, "cursor", 0, 100)
            IN /\ timers' = c.timers
               /\ nextTimer' = c.nextTimer
               /\ page' = [page EXCEPT !.room = "open",
                                       !.cursorIntervalRef = nextTimer,
                                       !.cursorTool = "spawn"]
               /\ multiplayer' = [multiplayer EXCEPT ![Me] = page.mounted]
               /\ UNCHANGED world
       ELSE /\ page' = [page EXCEPT !.room = "failed", !.isMultiplayer = FALSE,
                                    !.failures = @ + 1]
            /\ multiplayer' = [multiplayer EXCEPT ![Me] = FALSE]
            /\ world' = IF page.mounted /\ world[Me].engine
                        THEN [world EXCEPT ![Me] = initEngine(@)]
                        ELSE world
            /\ UNCHANGED <<timers, nextTimer>>
    /\ last' = [op |-> "roomSettles", ok |-> ok, mounted |-> page.mounted]
    /\ UNCHANGED <<now, localPlayerId, remoteCursors, wire, firstSender,
                   chaos, timeouts, explosions, special, holeLog, net>>

\* The page is torn down: the cleanups of its effects run.  Lines 113-118:
\* clearInterval(specialUpdateRef.current), clearSpecialObjects(); lines
\* 188-193: leaveRoom(), clearInterval(cursorIntervalRef.current).
Teardown ==
    /\ page.mounted
    /\ LET c1 == IF page.specialUpdateRef # NoTimer
                 THEN clearInterval(ChaosState, page.specialUpdateRef)
                 ELSE ChaosState
           c2 == IF page.cursorIntervalRef # NoTimer
                 THEN clearInterval(c1, page.cursorIntervalRef)
                 ELSE c1
           s == clearSpecialObjects(SpecialState)
       IN /\ timers' = c2.timers
          /\ special' = s.m
          /\ world' = [world EXCEPT ![Me] = s.w]
          /\ timeouts' = s.timeouts
          /\ holeLog' = s.log
    /\ multiplayer' = [multiplayer EXCEPT ![Me] = FALSE]
    /\ page' = [page EXCEPT !.mounted = FALSE,
                            !.room = IF @ = "pending" THEN @ ELSE "none"]
    /\ last' = [op |-> "teardown"]
    /\ UNCHANGED <<now, localPlayerId, remoteCursors, wire, firstSender,
                   chaos, nextTimer, explosions, net>>

\* The tool wheel (or a key 1-5) selects a tool.
SelectTool(tool) ==
    /\ page.mounted
    /\ page.selectedTool # tool
    /\ page' = [page EXCEPT !.selectedTool = tool]
    /\ last' = [op |-> "selectTool", tool |-> tool]
    /\ UNCHANGED <<now, syncVars, world, chaos, timers, nextTimer, timeouts,
                   explosions, special, holeLog, net>>

\* The cursor interval's callback runs (timer t):
\* if (isConnected()) syncCursor(lastCursorPos.current, selectedTool).
CursorSync(t, position) ==
    /\ t \in timers
    /\ t.kind = "cursor"
    /\ page.mounted /\ page.room = "open"
    /\ Broadcast(Me, {Entry(Me, syncCursor(Me, position, page.cursorTool), NoCall)})
    /\ last' = [op |-> "cursorSync", selectedTool |-> page.selectedTool,
                toolId |-> page.cursorTool]
    /\ UNCHANGED <<now, localPlayerId, multiplayer, world, remoteCursors,
                   chaosVars>>

(***************************************************************************)
(* peer.js: a room, its peers and the data between them                    *)
(***************************************************************************)
nonNet == <<now, localPlayerId, multiplayer, world, remoteCursors, wire,
            firstSender, chaos, timers, nextTimer, timeouts, explosions,
            special, holeLog, page>>

CreateRoom ==
    /\ ~net.peers[Host].peer
    /\ net' = createRoom(net, Host)
    /\ last' = [op |-> "createRoom"]
    /\ UNCHANGED nonNet

JoinRoom(j) ==
    /\ j # Host
    /\ net.peers[Host].peer
    /\ ~net.peers[j].peer
    /\ net' = joinRoom(net, j, Host)
    /\ last' = [op |-> "joinRoom", peer |-> j]
    /\ UNCHANGED nonNet

\* A sync function of peer p calls broadcast(event).
PeerBroadcast(p) ==
    /\ net.seq < MaxEvents
    /\ net.peers[p].peer
    /\ LET data == [origin |-> p, seq |-> net.seq + 1]
           n == broadcast([net EXCEPT !.seq = @ + 1], p, data)
       IN net' = [n EXCEPT !.owed = @ \cup
                    {[to |-> q, data |-> data] :
                        q \in {q \in RoomPeers \ {p} : isConnected(net, q)}}]
    /\ last' = [op |-> "broadcast", peer |-> p]
    /\ UNCHANGED nonNet

\* Data in flight arrives: the 'data' event of the connection.
ConnData(m) ==
    /\ CopiesIn(m, net.chan) > 0
    /\ net' = onData([net EXCEPT !.chan = @ (-) SetToBag({m})], m.to, m.data, m.from)
    /\ last' = [op |-> "data", peer |-> m.to]
    /\ UNCHANGED nonNet

(***************************************************************************)
(* Spec: the replication layer.  Peer A's player uses the page (one event  *)
(* of every type gets built), any peer is handed what is in flight.        *)
(***************************************************************************)
Next ==
    \/ Tick
    \/ MountCanvas(Me)
    \/ \E ok \in BOOLEAN : InitMultiplayer(Me, ok)
    \/ ClickSpawn(Me, "box", P1)
    \/ ClickGravity(Me)
    \/ CursorTick(Me, P1)
    \/ SyncForce(Me, P1)
    \/ \E e \in ForeignEvents : ForeignArrives(e)
    \/ \E n \in wire, present \in HandlerTables : HandleSyncEvent(Me, n, present)

Spec == Init /\ [][Next]_vars

(***************************************************************************)
(* SpecSpawn: spawning and its replication.                                *)
(***************************************************************************)
NextSpawn ==
    \/ Tick
    \/ \E p \in Peers : MountCanvas(p)
    \/ \E p \in Peers : InitMultiplayer(p, TRUE)
    \/ \E p \in Actors, t \in SelectableTypes, pos \in Points : ClickSpawn(p, t, pos)
    \/ \E e \in {f \in ForeignEvents : f.type = "spawn"} : ForeignArrives(e)
    \/ \E p \in Peers \ Actors, n \in wire :
            multiplayer[p] /\ HandleSyncEvent(p, n, PageHandlers)

SpecSpawn == Init /\ [][NextSpawn]_vars

(***************************************************************************)
(* SpecClick: peer A's player clicks with the spawn tool, peer B's page    *)
(* receives what the click sends.                                          *)
(***************************************************************************)
NextClick ==
    \/ Tick
    \/ \E p \in Peers : MountCanvas(p)
    \/ \E p \in Peers : InitMultiplayer(p, TRUE)
    \/ \E t \in SelectableTypes, pos \in Points : ClickSpawn(Me, t, pos)
    \/ \E p \in Peers \ {Me}, n \in wire : multiplayer[p] /\ HandleMessage(p, n)

SpecClick == Init /\ [][NextClick]_vars

(***************************************************************************)
(* SpecTools: the area and scale tools and their replication.              *)
(***************************************************************************)
NextTools ==
    \/ Tick
    \/ \E p \in Peers : MountCanvas(p)
    \/ \E p \in Peers : InitMultiplayer(p, TRUE)
    \/ \E p \in Actors : ClickSpawn(p, "explosive", P1)
    \/ \E p \in Actors, pos \in Points : ClickExplode(p, pos)
    \/ \E p \in Actors, grow \in BOOLEAN : ClickScale(p, P1, grow)
    \/ \E p \in Actors : MouseDownPush(p, P1)
    \/ \E p \in Actors, i \in 1..(4 + MaxSpawns) : Collision(p, i)
    \/ \E p \in Peers \ Actors, n \in wire :
            multiplayer[p] /\ HandleSyncEvent(p, n, PageHandlers)

SpecTools == Init /\ [][NextTools]_vars

(***************************************************************************)
(* SpecGravity: the gravity tool and its replication; both players flip.   *)
(***************************************************************************)
NextGravity ==
    \/ Tick
    \/ \E p \in Peers : MountCanvas(p)
    \/ \E p \in Peers, ok \in BOOLEAN : InitMultiplayer(p, ok)
    \/ \E p \in Peers : ClickGravity(p)
    \/ \E p \in Peers \ Actors, n \in wire :
            multiplayer[p] /\ HandleSyncEvent(p, n, PageHandlers)

SpecGravity == Init /\ [][NextGravity]_vars

(***************************************************************************)
(* SpecScale: the scale tool on the bodies a player spawned.                *)
(***************************************************************************)
NextScale ==
    \/ Tick
    \/ MountCanvas(Me)
    \/ \E t \in SelectableTypes : ClickSpawn(Me, t, P1)
    \/ \E pos \in Points, grow \in BOOLEAN : ClickScale(Me, pos, grow)

SpecScale == Init /\ [][NextScale]_vars

(***************************************************************************)
(* SpecBlast: explosions among a spawned body and the parts of a ragdoll.  *)
(***************************************************************************)
\* Where explosions are set off: beside the bodies, with some parts of the
\* ragdoll in reach and others not, a radius away from the spawned body, and
\* under the ceiling.
BlastPoints == Points \cup {Pos(230, 100), Pos(250, 100), Pos(600, 0)}

NextBlast ==
    \/ MountCanvas(Me)
    \/ \E t \in SelectableTypes, pos \in Points : ClickSpawn(Me, t, pos)
    \/ \E x \in {100, 160} : CreateRagdoll(x)
    \/ \E pos \in BlastPoints : ClickExplode(Me, pos)
    \/ \E i \in 1..(4 + MaxSpawns + 6 * MaxRagdolls) : Collision(Me, i)

SpecBlast == Init /\ [][NextBlast]_vars

(***************************************************************************)
(* The chaos controls of a mounted page: the panel's three buttons and the *)
(* 'C' key.  page.chaosEnabled is GamePage's state, chaosOn, floodOn and   *)
(* rulesOn are ChaosPanel's.                                               *)
(***************************************************************************)
SetChaosAndPage(c, pg) ==
    /\ chaos' = c.m
    /\ timers' = c.timers
    /\ nextTimer' = c.nextTimer
    /\ timeouts' = c.timeouts
    /\ world' = [world EXCEPT ![Me] = c.w]
    /\ page' = pg
    /\ UNCHANGED <<now, syncVars, explosions, special, holeLog, net>>

\* ChaosPanel.handleChaosToggle, with onChaosToggle = setChaosEnabled
HandleChaosToggle(rule) ==
    /\ page.mounted
    /\ chaos.chaosEnabled \/ nextTimer + 2 <= MaxTimers
    /\ LET c == toggleChaos(ChaosState, rule)
           newState == c.m.chaosEnabled
       IN SetChaosAndPage(c, [page EXCEPT !.chaosOn = newState,
                                          !.floodOn = newState,
                                          !.rulesOn = newState,
                                          !.chaosEnabled = newState])
    /\ last' = [op |-> "handleChaosToggle"]

\* ChaosPanel.handleFloodToggle
HandleFloodToggle ==
    /\ page.mounted
    /\ page.floodOn \/ nextTimer <= MaxTimers
    /\ SetChaosAndPage(IF page.floodOn THEN stopObjectFlood(ChaosState)
                       ELSE startObjectFlood(ChaosState, 5, 2000),
                       [page EXCEPT !.floodOn = ~page.floodOn])
    /\ last' = [op |-> "handleFloodToggle"]

\* ChaosPanel.handleRulesToggle
HandleRulesToggle(rule) ==
    /\ page.mounted
    /\ page.rulesOn \/ nextTimer <= MaxTimers
    /\ SetChaosAndPage(IF page.rulesOn THEN stopSuddenRules(ChaosState)
                       ELSE startSuddenRules(ChaosState, 10000, rule),
                       [page EXCEPT !.rulesOn = ~page.rulesOn])
    /\ last' = [op |-> "handleRulesToggle"]

\* GamePage's keydown handler, key 'c': toggleChaos(), then setChaosEnabled.
KeyC(rule) ==
    /\ page.mounted
    /\ chaos.chaosEnabled \/ nextTimer + 2 <= MaxTimers
    /\ LET c == toggleChaos(ChaosState, rule)
       IN SetChaosAndPage(c, [page EXCEPT !.chaosEnabled = c.m.chaosEnabled])
    /\ last' = [op |-> "keyC"]

(***************************************************************************)
(* SpecPanel: one mounted page, its chaos panel and its keyboard.          *)
(***************************************************************************)
NextPanel ==
    \/ MountPage(FALSE)
    \/ \E rule \in RULES : HandleChaosToggle(rule)
    \/ HandleFloodToggle
    \/ \E rule \in RULES : HandleRulesToggle(rule)
    \/ \E rule \in RULES : KeyC(rule)

SpecPanel == Init /\ [][NextPanel]_vars

(***************************************************************************)
(* SpecPage: the life of the game page, its panel and its room.            *)
(***************************************************************************)
NextPage ==
    \/ \E multi \in BOOLEAN : MountPage(multi)
    \/ \E ok \in BOOLEAN : RoomSettles(ok)
    \/ Teardown
    \/ page.mounted /\ \E rule \in RULES : ToggleChaos(rule)
    \/ page.mounted /\ StartObjectFlood(5, 2000)
    \/ page.mounted /\ StopObjectFlood
    \/ page.mounted /\ \E rule \in RULES : StartSuddenRules(10000, rule)
    \/ page.mounted /\ StopSuddenRules

SpecPage == Init /\ [][NextPage]_vars

(***************************************************************************)
(* SpecRoom: a page that asks for a room, and its player's actions while   *)
(* the room is pending, open or failed.                                    *)
(***************************************************************************)
NextRoom ==
    \/ \E multi \in BOOLEAN : MountPage(multi)
    \/ MountCanvas(Me)
    \/ \E ok \in BOOLEAN : RoomSettles(ok)
    \/ Teardown
    \/ page.mounted /\ ClickSpawn(Me, "box", P1)
    \/ page.mounted /\ ClickExplode(Me, P1)
    \/ page.mounted /\ ClickGravity(Me)
    \/ \E tool \in {"spawn", "gravity"} : SelectTool(tool)
    \/ \E t \in timers : CursorSync(t, P1)

SpecRoom == Init /\ [][NextRoom]_vars

(***************************************************************************)
(* SpecExec: executeTool with every tool id, with and without an engine.   *)
(***************************************************************************)
ToolIds == {"spawn", "push", "explode", "gravity", "scale", "teleport"}
ToolParams ==
    {[position |-> P1], [position |-> P1, objectType |-> "explosive"],
     [position |-> P1, grow |-> FALSE]}

NextExec ==
    \/ Tick
    \/ MountCanvas(Me)
    \/ \E toolId \in ToolIds, params \in ToolParams :
            ExecuteTool(Me, toolId, params)

SpecExec == Init /\ [][NextExec]_vars

(***************************************************************************)
(* SpecRelay: one room, its host and its joiners.                          *)
(***************************************************************************)
NextRelay ==
    \/ CreateRoom
    \/ \E j \in RoomPeers : JoinRoom(j)
    \/ \E p \in RoomPeers : PeerBroadcast(p)
    \/ \E m \in BagToSet(net.chan) : ConnData(m)

SpecRelay == Init /\ [][NextRelay]_vars

(***************************************************************************)
(* SpecChaos: the chaos orchestrator of one page.                          *)
(***************************************************************************)
\* What one flood tick draws: three or five bodies, here all of one type.
FloodDraws == {[i \in 1..n |-> type] : n \in {3, 5}, type \in FloodTypes}
\* The index of the first body after the four static ones of initEngine.
FirstDynamic == Len(initEngine(NoEngine).bodies) + 1

NextChaos ==
    \/ MountCanvas(Me)
    \/ StartObjectFlood(5, 2000)
    \/ StopObjectFlood
    \/ \E rule \in RULES : StartSuddenRules(10000, rule)
    \/ StopSuddenRules
    \/ StartExplosionChain
    \/ StopExplosionChain
    \/ \E rule \in RULES : EnableChaos(rule)
    \/ DisableChaos
    \/ \E rule \in RULES : ToggleChaos(rule)
    \/ \E t \in timers, types \in FloodDraws : FloodTick(t, types)
    \/ \E t \in timers, rule \in RULES : RulesTick(t, rule)
    \/ \E t \in timers : WatcherTick(t, 0)

SpecChaos == Init /\ [][NextChaos]_vars

(***************************************************************************)
(* SpecChain: chain reactions.  Barrels are dropped in a row, each within  *)
(* the triggering radius of the one before; the watcher ignites one (or    *)
(* more), and the rescans and delayed triggers run in any order.           *)
(* SpecChainLive adds that a pending one-shot timer runs in the end.       *)
(***************************************************************************)
\* Where the barrels drop: neighbours are 50 or 100 apart, the triggering
\* radius is 160.
ChainXs == {100, 200, 250, 300}

NextChain ==
    \/ MountCanvas(Me)
    \/ (nextTimer = 1 /\ StartExplosionChain)     \* the page's mount effect
    \/ \E x \in ChainXs : RainDrop(x)
    \/ \E t \in timers, fast \in {0} \cup (FirstDynamic..(FirstDynamic + MaxChain)) :
            WatcherTick(t, fast)
    \/ \E t \in BagToSet(timeouts) : RescanFires(t)
    \/ \E t \in BagToSet(timeouts) : TriggerFires(t)

SpecChain == Init /\ [][NextChain]_vars

\* The host runs every pending one-shot timer in the end.
TimeoutRuns == \E t \in BagToSet(timeouts) : RescanFires(t) \/ TriggerFires(t)

SpecChainLive == SpecChain /\ WF_vars(TimeoutRuns)

(***************************************************************************)
(* Properties of the replication layer, under Spec.                        *)
(***************************************************************************)
\* The step just taken handed an event to handleSyncEvent.
Handled == last.op = "handleSyncEvent"
\* The slot the switch of handleSyncEvent names for each known type.
SlotTable ==
    [spawn |-> "onSpawn", force |-> "onForce", tool |-> "onTool",
     gravity |-> "onGravity", cursor |-> "onCursor"]

\* C1 (echo suppression), as stated: whenever a peer hands handleSyncEvent an
\* event that its own createEvent built, whatever the type, no handler is
\* invoked.
C1_EchoSuppressed ==
    (Handled /\ last.entry.from = last.peer) => last.calls = <<>>

\* C5 (dispatch is a pure lookup): an event from another sender, of one of
\* the five known types, makes handleSyncEvent invoke exactly the slot of its
\* type, once, with (event.data, event.senderId), if the table holds that
\* slot, and nothing if it does not.
C5_DispatchIsLookup ==
    (/\ Handled
     /\ last.entry.ev.senderId # getPlayerId(last.peer)
     /\ last.entry.ev.type \in SYNC_EVENTS)
    => IF SlotTable[last.entry.ev.type] \in last.present
       THEN last.calls = << [slot |-> SlotTable[last.entry.ev.type],
                             data |-> last.entry.ev.data,
                             senderId |-> last.entry.ev.senderId] >>
       ELSE last.calls = <<>>

\* A tool event from another sender has been dispatched to onTool.
C5_Witness ==
    /\ Handled
    /\ last.entry.ev.senderId # getPlayerId(last.peer)
    /\ last.entry.ev.type = "tool"
    /\ Len(last.calls) = 1
    /\ last.calls[1].slot = "onTool"

\* C6 (unknown type dropped): handing handleSyncEvent an event whose type is
\* none of the five invokes no handler, does not raise, and leaves every
\* world, the cursors, the chaos state and the timers as they were.
C6_UnknownDropped ==
    [][(last'.op = "handleSyncEvent" /\ last'.entry.ev.type \notin SYNC_EVENTS)
        => /\ last'.calls = <<>>
           /\ ~last'.raised
           /\ world' = world
           /\ remoteCursors' = remoteCursors
           /\ chaos' = chaos
           /\ timers' = timers]_vars

\* An event of unknown type from another sender went through handleSyncEvent
\* with the full handler table, on a peer whose engine runs.
C6_Witness ==
    /\ Handled
    /\ last.entry.ev.type = "chat"
    /\ last.entry.ev.senderId # getPlayerId(last.peer)
    /\ last.present = Slots
    /\ world[last.peer].engine

\* C7 (stable sender identifier), as stated: an event a peer builds carries
\* the senderId of the first event it built since its initMultiplayer.
C7_StableSender ==
    [][\A x \in wire' :
          (x \notin wire /\ x.from \in Peers /\ firstSender[x.from] # NULL)
          => x.ev.senderId = firstSender[x.from]]_vars

C3_ToolReplicated ==
    (/\ Handled
     /\ last.entry.ev.type = "tool"
     /\ last.entry.ev.data.toolType \in {"push", "explode", "scale"}
     /\ last.calls # <<>>)
    => last.call = last.entry.used

\* C4 (gravity replication), as stated: a gravity event carries the
\* sender's gravity after its flip; a receiver that applied it has the
\* event's vector as its gravity, and applying it again changes nothing.
C4_GravityIdempotent ==
    /\ (last.op = "gravity" /\ multiplayer[last.peer])
       => \A x \in wire : /\ x.ev.type = "gravity"
                          /\ x.ev.data.gravity = getGravity(world[last.peer])
    /\ (Handled /\ last.entry.ev.type = "gravity" /\ last.calls # <<>>)
       => /\ getGravity(world[last.peer]) = last.entry.ev.data.gravity
          /\ RunHandler(world[last.peer], last.calls[1]).w = world[last.peer]

\* C4, amended: the same, for a receiver whose engine is initialised.
C4_GravityIdempotentWithEngine ==
    /\ (last.op = "gravity" /\ multiplayer[last.peer])
       => \A x \in wire : /\ x.ev.type = "gravity"
                          /\ x.ev.data.gravity = getGravity(world[last.peer])
    /\ (/\ Handled
        /\ last.entry.ev.type = "gravity"
        /\ last.calls # <<>>
        /\ world[last.peer].engine)
       => /\ getGravity(world[last.peer]) = last.entry.ev.data.gravity
          /\ RunHandler(world[last.peer], last.calls[1]).w = world[last.peer]

\* A receiver with an engine has applied the gravity event of a sender's
\* flip and now has the flipped vector.
C4_Witness ==
    /\ Handled
    /\ last.entry.ev.type = "gravity"
    /\ last.entry.from \in Peers
    /\ last.calls # <<>>
    /\ world[last.peer].engine
    /\ world[last.peer].gravity = Pos(0, -1)

(***************************************************************************)
(* Properties of the chaos orchestrator, under SpecChaos.                  *)
(***************************************************************************)
LoopKinds == {"flood", "rules", "watcher"}
\* The handle chaos.js holds for each loop.
HandleOf(m, kind) ==
    CASE kind = "flood" -> m.floodInterval
      [] kind = "rules" -> m.rulesInterval
      [] kind = "watcher" -> m.explosionCheckInterval

\* C8 (no duplicate timers): whatever sequence of starts, stops, enables,
\* disables and toggles ran, at most one repeating timer is active for the
\* flood loop, at most one for the rules loop and at most one for the
\* explosion watcher.
C8_NoDuplicateTimers ==
    \A kind \in LoopKinds : Cardinality(TimersOf(kind)) <= 1

\* The flood loop has been started while it was already running, and one
\* flood timer is active.
C8_Witness ==
    /\ last.op = "startObjectFlood"
    /\ last.replaced
    /\ Cardinality(TimersOf("flood")) = 1

\* C9 (toggle idempotence), as stated: from every reachable chaos state,
\* calling toggleChaos() twice gives the chaos flag its original value and
\* leaves no repeating timer of a chaos loop active.
C9_ToggleTwiceNoTimers ==
    \A r1 \in RULES, r2 \in RULES :
        LET c2 == toggleChaos(toggleChaos(ChaosState, r1), r2)
        IN /\ c2.m.chaosEnabled = chaos.chaosEnabled
           /\ {t \in c2.timers : t.kind \in LoopKinds} = {}

\* C9, amended: from every reachable chaos state, calling toggleChaos()
\* twice gives the chaos flag its original value; it leaves no repeating
\* timer of a chaos loop active when chaos was off, and exactly one per loop
\* when chaos was on.  The same holds of two toggles that a run made.
C9_ToggleTwice ==
    /\ \A r1 \in RULES, r2 \in RULES :
          LET c2 == toggleChaos(toggleChaos(ChaosState, r1), r2)
              left == {t \in c2.timers : t.kind \in LoopKinds}
          IN /\ c2.m.chaosEnabled = chaos.chaosEnabled
             /\ IF chaos.chaosEnabled
                THEN \A kind \in LoopKinds :
                        Cardinality({t \in left : t.kind = kind}) = 1
                ELSE left = {}
    /\ (last.op = "toggleChaos" /\ last.again)
       => /\ chaos.chaosEnabled = last.was
          /\ IF last.was
             THEN \A kind \in LoopKinds : Cardinality(TimersOf(kind)) = 1
             ELSE timers = {}

\* toggleChaos() has run twice in a row from a state with chaos off and the
\* watcher started at mount: the flag is off again and no timer is active.
C9_Witness ==
    /\ last.op = "toggleChaos"
    /\ last.again
    /\ ~last.was
    /\ ~chaos.chaosEnabled
    /\ timers = {}
    /\ nextTimer > 4

\* What holds right after enableChaos(), disableChaos() and toggleChaos().
AfterMasterCall ==
    /\ (last.op = "enableChaos") =>
          (/\ chaos.chaosEnabled /\ chaos.objectFloodEnabled
           /\ chaos.suddenRulesEnabled /\ chaos.autoExplodeEnabled
           /\ \A kind \in LoopKinds :
                 /\ Cardinality(TimersOf(kind)) = 1
                 /\ \A t \in TimersOf(kind) : t.id = HandleOf(chaos, kind))
    /\ (last.op = "disableChaos") =>
          (/\ ~chaos.chaosEnabled /\ ~chaos.objectFloodEnabled
           /\ ~chaos.suddenRulesEnabled /\ ~chaos.autoExplodeEnabled
           /\ \A kind \in LoopKinds :
                 TimersOf(kind) = {} /\ HandleOf(chaos, kind) = NoTimer)
    /\ (last.op = "toggleChaos") =>
          (/\ last.returned = chaos.chaosEnabled
           /\ last.returned = ~last.before)

\* A step that is a tick of a loop is a tick of the timer the loop's handle
\* names.
TickFromHandle ==
    last'.op \in {"floodTick", "rulesTick", "watcherTick"}
    => \E kind \in LoopKinds :
          /\ last'.op = kind \o "Tick"
          /\ last'.timer = HandleOf(chaos, kind)
          /\ last'.timer # NoTimer

\* C10 (master toggle): after enableChaos() each of the three loops has an
\* active timer, the one its handle names, and the four flags are true;
\* after disableChaos() no loop has a timer, the handles are null and the
\* four flags are false; toggleChaos() returns the chaos flag's value after
\* the toggle, the negation of its value before; and a flood, rules or
\* watcher tick fires only from the timer that the loop's handle names, so
\* none fires between a disableChaos() and the next start.
C10_MasterToggle == []AfterMasterCall /\ [][TickFromHandle]_vars

\* disableChaos() has cancelled the timers an earlier enableChaos() started.
C10_Witness ==
    /\ last.op = "disableChaos"
    /\ nextTimer > 3
    /\ chaos.currentRule # NULL
    /\ timers = {}

\* The gravity is the default downward vector right after the rules loop
\* was stopped.
GravityResetAfterStop ==
    (last.op \in {"stopSuddenRules", "disableChaos"})
    => (/\ getGravity(world[Me]) = Pos(0, 1)
        /\ chaos.rulesInterval = NoTimer
        /\ TimersOf("rules") = {}
        /\ ~chaos.suddenRulesEnabled)

\* While the rules loop is stopped, a step applies no rule: the current rule
\* stays, and the gravity changes only by a call that sets it to the default.
NoRuleWhileStopped ==
    (chaos.rulesInterval = NoTimer
        /\ last'.op \notin {"startSuddenRules", "enableChaos", "toggleChaos"})
    => (/\ last'.op # "rulesTick"
        /\ chaos'.currentRule = chaos.currentRule
        /\ \/ getGravity(world'[Me]) = getGravity(world[Me])
           \/ getGravity(world'[Me]) = Pos(0, 1))

\* C11 (stopping the rules): stopSuddenRules, and disableChaos through it,
\* sets the world's gravity to the default downward vector (0, 1) whatever
\* it was before, and no rule is applied until the rules loop is started
\* again.
C11_StopResetsGravity == []GravityResetAfterStop /\ [][NoRuleWhileStopped]_vars

\* The rules loop was stopped while a rule had turned the gravity upwards.
C11_Witness ==
    /\ last.op = "stopSuddenRules"
    /\ last.gravityBefore = Pos(0, -1)
    /\ world[Me].engine
    /\ world[Me].gravity = Pos(0, 1)

(***************************************************************************)
(* SpecHoles: black holes and magnets on one page, with a box near the     *)
(* place a hole opens.  SpecHolesLive adds that time passes and that a     *)
(* timer that is due runs in the end.                                      *)
(***************************************************************************)
\* Where a hole opens: 30 from the box at P1.
HolePoints == {Pos(130, 100)}
\* The lifetime option: absent (0, the default applies) or one step.
HoleOptions == {[pullRadius |-> 350, lifetime |-> l] : l \in {0, 1}}
\* Where explodeBlackHole scatters a consumed body, relative to the hole.
Scatters == {Pos(50, 0)}

NextHoles ==
    \/ MountCanvas(Me)
    \/ Advance
    \/ (Movable(world[Me]) = {} /\ ClickSpawn(Me, "box", P1))
    \/ \E position \in HolePoints, options \in HoleOptions :
            CreateBlackHole(position, options)
    \/ \E scatter \in Scatters : UpdateSpecialObjects(scatter)
    \/ \E t \in BagToSet(timeouts), scatter \in Scatters : BlackHoleTimeout(t, scatter)
    \/ HandleClearAll

SpecHoles == Init /\ [][NextHoles]_vars

(***************************************************************************)
(* SpecStop: chain reactions on a page whose watcher is stopped, by        *)
(* stopExplosionChain or by disableChaos, at any moment of a cascade.       *)
(***************************************************************************)
NextStop ==
    \/ MountCanvas(Me)
    \/ (nextTimer = 1 /\ StartExplosionChain)     \* the page's mount effect
    \/ \E x \in ChainXs : RainDrop(x)
    \/ \E t \in timers, fast \in {0} \cup (FirstDynamic..(FirstDynamic + MaxChain)) :
            WatcherTick(t, fast)
    \/ \E t \in BagToSet(timeouts) : RescanFires(t)
    \/ \E t \in BagToSet(timeouts) : TriggerFires(t)
    \/ (chaos.autoExplodeEnabled /\ StopExplosionChain)
    \/ (chaos.autoExplodeEnabled /\ DisableChaos)

SpecStop == Init /\ [][NextStop]_vars

(***************************************************************************)
(* SpecRange: the panel's black hole, at the centre of the canvas, a box   *)
(* spawned near it, and the player dragging the box about.                 *)
(***************************************************************************)
Centre == Pos(CANVAS_WIDTH \div 2, CANVAS_HEIGHT \div 2)
\* 20 from the centre; 300 from it; a corner of the canvas, more than 700
\* from it.
DragPoints == {Pos(580, 400), Pos(300, 400), Pos(15, 8)}
PanelHole == [pullRadius |-> 350, lifetime |-> 2]

NextRange ==
    \/ MountCanvas(Me)
    \/ Advance
    \/ (Movable(world[Me]) = {} /\ ClickSpawn(Me, "box", Pos(580, 400)))
    \/ DOMAIN special.heap = {} /\ CreateBlackHole(Centre, PanelHole)
    \/ \E scatter \in Scatters : UpdateSpecialObjects(scatter)
    \/ \E t \in BagToSet(timeouts), scatter \in Scatters : BlackHoleTimeout(t, scatter)
    \/ \E i \in 1..Len(world[Me].bodies), position \in DragPoints :
            DragBody(i, position)

SpecRange == Init /\ [][NextRange]_vars

\* A black-hole timer that is due runs.
DueTimeoutRuns ==
    \E t \in BagToSet(timeouts), scatter \in Scatters : BlackHoleTimeout(t, scatter)

\* The runs of SpecHoles in which a hole opens when no other is active and
\* the box is spawned once.
NextHolesLive ==
    \/ MountCanvas(Me)
    \/ Advance
    \/ (world[Me].objectIdCounter = 0 /\ ClickSpawn(Me, "box", P1))
    \/ \E position \in HolePoints, options \in HoleOptions :
            special.activeBlackHoles = <<>> /\ CreateBlackHole(position, options)
    \/ \E scatter \in Scatters : UpdateSpecialObjects(scatter)
    \/ \E t \in BagToSet(timeouts), scatter \in Scatters : BlackHoleTimeout(t, scatter)
    \/ HandleClearAll

SpecHolesLive ==
    Init /\ [][NextHolesLive]_vars /\ WF_vars(Advance) /\ WF_vars(DueTimeoutRuns)

(***************************************************************************)
(* SpecMagnets: magnets on a page where everything else goes on: a box is  *)
(* spawned and blown at, the world is cleared, chaos is toggled, a black   *)
(* hole opens and explodes.                                                *)
(***************************************************************************)
NextMagnets ==
    \/ MountCanvas(Me)
    \/ Tick
    \/ MagnetMadness
    \/ (Movable(world[Me]) = {} /\ ClickSpawn(Me, "box", P1))
    \/ ClickExplode(Me, P1)
    \/ \E options \in {o \in HoleOptions : o.lifetime = 1}, position \in HolePoints :
            DOMAIN special.heap = {} /\ CreateBlackHole(position, options)
    \/ \E scatter \in Scatters : UpdateSpecialObjects(scatter)
    \/ \E t \in BagToSet(timeouts), scatter \in Scatters : BlackHoleTimeout(t, scatter)
    \/ ClearWorld
    \/ HandleClearAll
    \/ ((chaos.chaosEnabled \/ nextTimer = 1) /\ ToggleChaos("GRAVITY FLIP"))

SpecMagnets == Init /\ [][NextMagnets]_vars

(***************************************************************************)
(* SpecTick: the page's update loop over black holes that open at any      *)
(* time, from the keyboard and from the panel, and the two magnets of      *)
(* magnetMadness.                                                          *)
(***************************************************************************)
NextTick ==
    \/ MountCanvas(Me)
    \/ Advance
    \/ \E position \in HolePoints, options \in HoleOptions :
            CreateBlackHole(position, options)
    \/ HandleBlackHole
    \/ MagnetMadness
    \/ \E scatter \in Scatters : UpdateSpecialObjects(scatter)
    \/ ClearWorld

SpecTick == Init /\ [][NextTick]_vars

(***************************************************************************)
(* SpecTime: every call of special.js, before and after the engine exists. *)
(***************************************************************************)
SpecialCalls ==
    {"createBlackHole", "createMagnet", "createRagdoll", "ragdollRain",
     "magnetMadness", "toggleSlowMotion", "toggleFreeze", "dramaticSlowMo",
     "updateSpecialObjects"}

NextTime ==
    \/ MountCanvas(Me)
    \/ \E position \in HolePoints, options \in {o \in HoleOptions : o.lifetime = 0} :
            DOMAIN special.heap = {} /\ CreateBlackHole(position, options)
    \/ CreateMagnet(P1, 1)
    \/ CreateRagdoll(600)
    \/ RagdollRain(1)
    \/ \E t \in BagToSet(timeouts) : RagdollDrops(t, 600)
    \/ MagnetMadness
    \/ ToggleSlowMotion
    \/ ToggleFreeze
    \/ DramaticSlowMo
    \/ \E t \in BagToSet(timeouts) : SlowMoEnds(t)
    \/ \E scatter \in Scatters : UpdateSpecialObjects(scatter)

SpecTime == Init /\ [][NextTime]_vars

(***************************************************************************)
(* Properties of the chain reaction, under SpecChain and SpecChainLive.    *)
(***************************************************************************)
\* The explodeBody calls the watcher made.
Ignitions == {e \in BagToSet(explosions) : e.by = "watcher"}

\* C12 (chain reaction), as stated: once the watcher has ignited one barrel
\* of a row of N barrels, each within the triggering radius of the next,
\* and the timers of the cascade have all run, explodeBody has run exactly N
\* times and no explosive body survives.
C12_ChainReaction ==
    (/\ Cardinality(Ignitions) = 1
     /\ \A e \in Ignitions : CopiesIn(e, explosions) = 1
     /\ timeouts = EmptyBag)
    => (/\ BagCardinality(explosions) = world[Me].objectIdCounter
        /\ Watched(world[Me]) = {})

\* C13 (at most once), as stated: explodeBody never runs for a body that is
\* no longer in the world, so no body explodes twice.
C13_ExplodesOnce ==
    \A e \in BagToSet(explosions) : e.present /\ CopiesIn(e, explosions) = 1

\* While no one-shot timer is pending, the only explosion is a new ignition
\* by the watcher.
QuietStaysQuiet ==
    (timeouts = EmptyBag /\ explosions' # explosions)
    => (last'.op = "watcherTick")

\* C14 (cascade termination): with a finite set of barrels and no barrel
\* spawned after the first explosion, whenever a rescan or a delayed trigger
\* is pending, a state follows in which none is pending; and from such a
\* state no explosion happens but by a new ignition.
C14_CascadeTerminates ==
    ((timeouts # EmptyBag) ~> (timeouts = EmptyBag)) /\ [][QuietStaysQuiet]_vars

\* A cascade over three barrels or more has ended: every barrel is gone and
\* no timer is pending.
C14_Witness ==
    /\ timeouts = EmptyBag
    /\ world[Me].objectIdCounter >= 3
    /\ BagCardinality(explosions) >= world[Me].objectIdCounter
    /\ Cardinality(Ignitions) = 1
    /\ Watched(world[Me]) = {}

(***************************************************************************)
(* Properties of black holes and magnets, under SpecHoles, SpecHolesLive   *)
(* and SpecMagnets.                                                        *)
(***************************************************************************)
ActiveHole(id) ==
    \E n \in 1..Len(special.activeBlackHoles) : special.activeBlackHoles[n] = id

Exploded(id) == \E e \in BagToSet(holeLog.exploded) : e.hole = id

\* C15 (black hole lifetime): a black hole created with lifetime L and not
\* cleared by clearSpecialObjects is in the active list, and has not
\* exploded, as long as less than L has passed since its creation.
C15_HoleLifetime ==
    \A id \in DOMAIN special.heap :
        (/\ now - special.heap[id].createdAt < special.heap[id].lifetime
         /\ id \notin holeLog.cleared)
        => (ActiveHole(id) /\ ~Exploded(id))

\* A hole opened with a lifetime of one step has exploded, one step after
\* its creation, without having been cleared.
C15_Witness ==
    \E id \in DOMAIN special.heap :
        /\ special.heap[id].lifetime = 1
        /\ now - special.heap[id].createdAt = 1
        /\ id \notin holeLog.cleared
        /\ Exploded(id)
        /\ ~ActiveHole(id)

\* Whenever black holes are active, a state follows in which none is: with
\* StaysGone, every hole that was active has left the list for good.
HoleExpires ==
    (special.activeBlackHoles # <<>>) ~> (special.activeBlackHoles = <<>>)

\* The body of a hole that has left the active list is not in the world.
GoneFromWorld ==
    \A id \in DOMAIN special.heap :
        ~ActiveHole(id) => ~InWorld(world[Me], special.heap[id].body)

\* A hole that has left the active list does not come back.
StaysGone ==
    \A id \in DOMAIN special.heap :
        ~ActiveHole(id) => ~(\E n \in 1..Len(special'.activeBlackHoles) :
                                special'.activeBlackHoles[n] = id)

\* C16 (black hole expiry): a black hole leaves the active list in the end,
\* by its timer if nothing else removed it, whether or not the update loop
\* runs; from then on its body is not in the world and the hole does not
\* come back.
C16_HoleExpiry == HoleExpires /\ []GoneFromWorld /\ [][StaysGone]_vars

\* A hole with the default lifetime was removed by its timer: it was still
\* active when explodeBlackHole ran, and its body is gone.
C16_Witness ==
    \E id \in DOMAIN special.heap :
        /\ last.op = "explodeBlackHole"
        /\ special.heap[id].lifetime = DefaultLifetime
        /\ id \notin holeLog.cleared
        /\ \E e \in BagToSet(holeLog.exploded) : e.hole = id /\ e.active
        /\ ~ActiveHole(id)
        /\ ~InWorld(world[Me], special.heap[id].body)

\* C17 (cleared holes do not explode), as stated: explodeBlackHole never
\* runs for a hole that clearSpecialObjects removed, so no impulse, teleport,
\* velocity or feedback is applied for it after the clear.
C17_ClearedNeverExplodes ==
    \A e \in BagToSet(holeLog.exploded) : ~e.cleared

\* The magnets are in the active list with their bodies in the world, and
\* right after clearSpecialObjects both active lists are empty.
MagnetsInWorld ==
    /\ \A n \in 1..Len(special.activeMagnets) :
            InWorld(world[Me], special.activeMagnets[n].body)
    /\ (last.op = "clearAll") =>
            (special.activeMagnets = <<>> /\ special.activeBlackHoles = <<>>)

\* A step that is not clearSpecialObjects keeps every active magnet.
MagnetStays ==
    (last'.op # "clearAll")
    => \A n \in 1..Len(special.activeMagnets) :
          /\ n <= Len(special'.activeMagnets)
          /\ special'.activeMagnets[n] = special.activeMagnets[n]
          /\ InWorld(world'[Me], special.activeMagnets[n].body)

NoEngineNoEffect ==
    (~world[Me].engine /\ last'.op \in SpecialCalls)
    => (/\ special' = special
        /\ timeouts' = timeouts
        /\ world' = world)

\* With no engine, every call of special.js, were it made now, would leave
\* the module's state and the pending timers as they are.
NoEngineNoOp ==
    ~world[Me].engine
    => \A r \in {createBlackHole(SpecialState, 130, 100, [lifetime |-> 1], now),
                 createMagnet(SpecialState, 100, 100, 1, now),
                 createRagdoll(SpecialState, 600, 150, 2),
                 ragdollRain(SpecialState, 5),
                 magnetMadness(SpecialState, now),
                 toggleSlowMotion(SpecialState),
                 toggleFreeze(SpecialState),
                 dramaticSlowMo(SpecialState),
                 updateSpecialObjects(SpecialState, now, Pos(50, 0))} :
          /\ r.m = special
          /\ r.timeouts = timeouts
          /\ r.w = world[Me]

\* C19 (unavailable world): while no engine is initialised, createBlackHole,
\* createMagnet, createRagdoll, ragdollRain, magnetMadness, toggleSlowMotion,
\* toggleFreeze, dramaticSlowMo and updateSpecialObjects return leaving the
\* active black holes, the active magnets and the slow-motion and frozen
\* flags as they were, and set no timer.
C19_NoEngineNoOp == []NoEngineNoOp /\ [][NoEngineNoEffect]_vars

\* dramaticSlowMo() was called with no engine: the flags are false and no
\* timer is pending.
C19_Witness ==
    /\ ~world[Me].engine
    /\ last.op = "dramaticSlowMo"
    /\ ~special.isSlowMo
    /\ timeouts = EmptyBag

(***************************************************************************)
(* Properties of the scale tool, under SpecScale.                          *)
(***************************************************************************)
\* C20 (scale invariant): whatever scale(grow) calls were made, every
\* body's tracked scale 1.5^k lies in [0.3, 3.0], and it is the product of
\* the factors that were applied to the body.
C20_ScaleInvariant ==
    \A p \in Peers : \A i \in 1..Len(world[p].bodies) :
        LET b == world[p].bodies[i]
        IN /\ 10 * ScaleNum(b.customScale) >= 3 * ScaleDen(b.customScale)
           /\ ScaleNum(b.customScale) <= 3 * ScaleDen(b.customScale)
           /\ b.customScale = b.applied

\* A body has been grown twice (scale 2.25) and a third growth was refused.
C20_Witness ==
    /\ last.op = "scale"
    /\ last.grow
    /\ last.result = Undefined
    /\ \E i \in 1..Len(world[last.peer].bodies) :
            world[last.peer].bodies[i].customScale = 2

\* Whether a scale call must be refused: no non-static body lies under the
\* position, or the new scale of the first one that does leaves [0.3, 3.0].
ScaleRejected(w, position, grow) ==
    LET hits == {i \in 1..Len(w.bodies) :
                    ~w.bodies[i].isStatic /\ BoundsContain(w.bodies[i], position)}
    IN \/ hits = {}
       \/ LET i == CHOOSE i \in hits : \A j \in hits : i <= j
              k == w.bodies[i].customScale + (IF grow THEN 1 ELSE -1)
          IN \/ 10 * ScaleNum(k) < 3 * ScaleDen(k)
             \/ ScaleNum(k) > 3 * ScaleDen(k)

\* A step that is such a call returns null, asks for no feedback and leaves
\* every body, its size and its tracked scale included, as it was.
RejectedScaleIsNoOp ==
    (last'.op = "scale" /\ world[last'.peer].engine
        /\ ScaleRejected(world[last'.peer], last'.position, last'.grow))
    => /\ last'.result = Undefined
       /\ last'.feedback = {}
       /\ world' = world

\* C21 (scale rejection): a scale call at a position under which no
\* non-static body lies, or whose new cumulative scale would leave
\* [0.3, 3.0], returns null, resizes no body, leaves every body's tracked
\* scale as it was and asks for no feedback.
C21_ScaleRejection == [][RejectedScaleIsNoOp]_vars

\* A body shrunk twice (scale 0.444) lies under the position and the third
\* shrink was refused.
C21_Witness ==
    /\ last.op = "scale"
    /\ ~last.grow
    /\ last.result = Undefined
    /\ \E i \in 1..Len(world[last.peer].bodies) :
            /\ world[last.peer].bodies[i].customScale = -2
            /\ BoundsContain(world[last.peer].bodies[i], last.position)

(***************************************************************************)
(* Properties of explosions, under SpecBlast.                              *)
(***************************************************************************)
\* The forces an explosion step applied, against the world it acted on: w,
\* the blast (centre, force, radius, affectedCount) and the impulses.
FalloffLaw(w, blast, impulses) ==
    LET D(i) == Dist2(w.bodies[i].position, blast.position)
        Of(i) == {m \in impulses : m.body = i}
        r == blast.radius
        \* r - d, in tenths, for the body of an impulse
        Reach(m) == 10 * r - Distance10(w.bodies[m.body].position, blast.position)
    IN /\ \A m \in impulses : m.body \in 1..Len(w.bodies)
       /\ \A i \in 1..Len(w.bodies) :
            /\ D(i) >= r * r => Of(i) = {}
            /\ w.bodies[i].isStatic => Of(i) = {}
            /\ (~w.bodies[i].isStatic /\ 0 < D(i) /\ D(i) < r * r)
                    => Cardinality(Of(i)) = 1
       \* proportional to f * (1 - d / r): a multiple of f * (r - d), by the
       \* same factor for every body
       /\ \A a \in impulses :
            /\ a.force.num > 0
            /\ a.force.den = (CHOOSE m \in impulses : TRUE).force.den
            /\ a.force.num % (blast.force * Reach(a)) = 0
            /\ a.force.num \div Reach(a)
                    = LET m == CHOOSE m \in impulses : TRUE
                      IN m.force.num \div Reach(m)
       \* strictly decreasing in d
       /\ \A a, b \in impulses :
            D(a.body) < D(b.body) => a.force.num > b.force.num
       /\ blast.affectedCount = Cardinality(impulses)

ExplosionObeysFalloff ==
    (last'.op \in {"explode", "collision"})
    => FalloffLaw(world[last'.peer], last'.blast, last'.impulses)

\* C22 (falloff law): an explosion with centre c, force f and radius r gives
\* no force to a body at distance d >= r and none to a static body; a
\* non-static body at 0 < d < r gets a force proportional to f * (1 - d/r),
\* strictly decreasing in d; affectedCount is the number of bodies that got
\* a force.
C22_FalloffLaw == [][ExplosionObeysFalloff]_vars

\* An explosion at the edge of the ragdoll: some parts got forces of
\* different magnitudes, another part at d >= r got none.
C22_Witness ==
    /\ last.op = "explode"
    /\ \E a, b \in last.impulses : a.force.num > b.force.num
    /\ \E i \in 1..Len(world[Me].bodies) :
            /\ ~world[Me].bodies[i].isStatic
            /\ Dist2(world[Me].bodies[i].position, last.blast.position)
                    >= last.blast.radius * last.blast.radius

(***************************************************************************)
(* Properties of the page's life, under SpecPage.                          *)
(***************************************************************************)
\* C23 (teardown leaves no orphaned repeating timer): once the page is torn
\* down, none of the repeating timers it started or enabled is active: flood
\* loop, rules loop, explosion watcher, special-effects tick, cursor-sync
\* interval, also when the teardown came while the room was pending.
C23_NoOrphanedTimer == ~page.mounted => timers = {}

(***************************************************************************)
(* Properties of executeTool, under SpecExec.                              *)
(***************************************************************************)
\* C24 (no tool operation is fatal): executeTool returns a result or null
\* and does not raise, for every tool id (spawn, push, explode, gravity,
\* scale, or an unknown one), also when the engine is not initialised.
C24_NoToolRaises == last.op = "executeTool" => ~last.raised

(***************************************************************************)
(* Properties of the room, under SpecRoom.                                 *)
(***************************************************************************)
\* A rejected createRoom / joinRoom is reported once and leaves the page in
\* single-player mode, with no cursor interval of its own.
FailureReported ==
    /\ (last'.op = "roomSettles" /\ ~last'.ok)
            => page'.failures = page.failures + 1
    /\ ~(last'.op = "roomSettles" /\ ~last'.ok)
            => page'.failures = page.failures

SinglePlayerAfterFailure ==
    page.room = "failed"
    => /\ ~page.isMultiplayer
       /\ ~multiplayer[Me]
       /\ page.cursorIntervalRef = NoTimer

\* While the room is failed, a local spawn, explosion or gravity flip acts on
\* the local world and nothing is broadcast.
LocalOnlyAfterFailure ==
    (page.room = "failed" /\ page'.room = "failed")
    => /\ wire' = wire
       /\ firstSender' = firstSender
       /\ last'.op # "cursorSync"
       /\ last'.op = "spawn"
            => Len(world'[Me].bodies) = Len(world[Me].bodies) + 1
       /\ last'.op = "gravity"
            => world'[Me].gravity.y = -(world[Me].gravity.y)
       /\ last'.op = "explode"
            => last'.blast.affectedCount = Cardinality(last'.impulses)

\* C25 (transport failure degrades to single player): when createRoom or
\* joinRoom rejects, the failure is reported once, the page switches to
\* single-player mode, and from then on local tool and spawn actions still
\* execute locally while no spawn, tool, gravity or cursor event is
\* broadcast.
C25_FailureDegrades ==
    /\ [][FailureReported]_vars
    /\ []SinglePlayerAfterFailure
    /\ [][LocalOnlyAfterFailure]_vars

\* After the room failed the player spawned a body, which is in the local
\* world, and nothing is in flight.
C25_Witness ==
    /\ page.room = "failed"
    /\ page.failures = 1
    /\ last.op = "spawn"
    /\ Len(world[Me].bodies) = 5
    /\ wire = {}

(***************************************************************************)
(* Properties of the sub-loops, under SpecChaos.                           *)
(***************************************************************************)
\* The flag, the handle and the timers of one sub-loop, before and after a
\* step.
LoopUntouched(kind) ==
    /\ {t \in timers' : t.kind = kind} = {t \in timers : t.kind = kind}
    /\ CASE kind = "flood" ->
                /\ chaos'.objectFloodEnabled = chaos.objectFloodEnabled
                /\ chaos'.floodInterval = chaos.floodInterval
         [] kind = "rules" ->
                /\ chaos'.suddenRulesEnabled = chaos.suddenRulesEnabled
                /\ chaos'.rulesInterval = chaos.rulesInterval
         [] kind = "watcher" ->
                /\ chaos'.autoExplodeEnabled = chaos.autoExplodeEnabled
                /\ chaos'.explosionCheckInterval = chaos.explosionCheckInterval

SubLoopStepIsLocal ==
    /\ (last'.op \in {"startObjectFlood", "stopObjectFlood"})
            => /\ chaos'.chaosEnabled = chaos.chaosEnabled
               /\ LoopUntouched("rules") /\ LoopUntouched("watcher")
    /\ (last'.op \in {"startSuddenRules", "stopSuddenRules"})
            => /\ chaos'.chaosEnabled = chaos.chaosEnabled
               /\ LoopUntouched("flood") /\ LoopUntouched("watcher")
    /\ (last'.op \in {"startExplosionChain", "stopExplosionChain"})
            => /\ chaos'.chaosEnabled = chaos.chaosEnabled
               /\ LoopUntouched("flood") /\ LoopUntouched("rules")

\* C26 (sub-loop independence): starting or stopping one sub-loop (flood,
\* rules or explosion watcher) leaves the chaos flag and the flags and timers
\* of the other two sub-loops unchanged.
C26_SubLoopIndependence == [][SubLoopStepIsLocal]_vars

\* The flood was stopped on its own while chaos was on: the rules loop and
\* the watcher are still running.
C26_Witness ==
    /\ last.op = "stopObjectFlood"
    /\ chaos.chaosEnabled
    /\ ~chaos.objectFloodEnabled /\ TimersOf("flood") = {}
    /\ chaos.suddenRulesEnabled /\ TimersOf("rules") # {}
    /\ chaos.autoExplodeEnabled /\ TimersOf("watcher") # {}

(***************************************************************************)
(* Properties of the relay, under SpecRelay.                               *)
(***************************************************************************)
\* C27 (relay delivery): in a room of one host and its joiners, an event a
\* peer broadcasts reaches the message callback of every other peer that was
\* connected, exactly once, and never that of the peer it came from; only
\* the host relays.
C27_RelayDelivery ==
    /\ \A d \in BagToSet(net.delivered) :
            /\ CopiesIn(d, net.delivered) = 1
            /\ d.to # d.data.origin
    /\ \A r \in net.relays : r.by = Host
    /\ net.chan = EmptyBag
            => \A o \in net.owed : CopiesIn(o, net.delivered) = 1

\* An event of joiner 1 has reached the host and, by the host's relay,
\* joiner 2, and nothing is in flight.
C27_Witness ==
    /\ net.chan = EmptyBag
    /\ \E d \in BagToSet(net.delivered) :
            /\ d.data.origin = 1
            /\ d.to = 2
            /\ [to |-> Host, data |-> d.data] \in BagToSet(net.delivered)
            /\ [by |-> Host, data |-> d.data] \in net.relays
            /\ d \in net.owed

(***************************************************************************)
(* Properties of the chaos controls, under SpecPanel.                      *)
(***************************************************************************)
\* C28 (the UI shows the orchestrator's chaos state): on a mounted page the
\* chaos, flood and rules indicators the UI holds equal the chaos, flood and
\* rules flags of getChaosState().
C28_UiShowsChaosState ==
    page.mounted =>
        LET g == getChaosState(ChaosState)
        IN /\ page.chaosEnabled = g.chaos
           /\ page.chaosOn = g.chaos
           /\ page.floodOn = g.flood
           /\ page.rulesOn = g.rules

(***************************************************************************)
(* Properties of the cursor interval, under SpecRoom.                      *)
(***************************************************************************)
\* C29 (cursor events carry the selected tool): the cursor event the cursor
\* interval broadcasts has data.toolId equal to the tool the sender has
\* selected when the event is sent.
C29_CursorCarriesSelectedTool ==
    last.op = "cursorSync" => last.toolId = last.selectedTool

(***************************************************************************)
(* Properties of the black hole's explosion, under SpecRange.              *)
(***************************************************************************)
\* The ids of the bodies of w a hole could act on that are closer to the
\* hole's centre than twice its pull radius.
InRange(w, bh) ==
    {w.bodies[i].customId : i \in {i \in Movable(w) :
        Dist2(w.bodies[i].position, Pos(bh.x, bh.y))
            < 4 * bh.pullRadius * bh.pullRadius}}

\* A step in which one black hole explodes: the bodies given an impulse are
\* those in range, and none out of range is moved.
ExplosionInRange ==
    \A e \in BagToSet(holeLog'.exploded) :
        CopiesIn(e, holeLog'.exploded) > CopiesIn(e, holeLog.exploded)
            => LET bh == special.heap[e.hole]
                   near == InRange(world[Me], bh)
               IN /\ e.impulses = near
                  /\ e.teleported \subseteq near
                  /\ \A i \in Movable(world[Me]) :
                        world[Me].bodies[i].customId \notin near
                            => \E j \in 1..Len(world'[Me].bodies) :
                                    world'[Me].bodies[j] = world[Me].bodies[i]

\* C30 (black-hole explosion range): when a black hole explodes, exactly the
\* non-static, non-black-hole bodies closer to its centre than twice its pull
\* radius are affected; a body farther away gets no impulse and is not moved.
C30_ExplosionRange == [][ExplosionInRange]_vars

(***************************************************************************)
(* Properties of stopping the watcher, under SpecStop.                     *)
(***************************************************************************)
\* A step that stops the watcher removes the poll and leaves the one-shot
\* timers as they were; a delayed trigger that runs calls explodeBody,
\* whether the watcher is on or not.
StopLeavesCascade ==
    /\ last'.op \in {"stopExplosionChain", "disableChaos"}
            => /\ timeouts' = timeouts
               /\ explosions' = explosions
               /\ {t \in timers' : t.kind = "watcher"} = {}
               /\ ~chaos'.autoExplodeEnabled
    /\ (last'.op = "trigger" /\ timeouts' # timeouts)
            => BagCardinality(explosions') = BagCardinality(explosions) + 1

\* C31 (stopping the watcher cancels only the poll): stopExplosionChain and
\* disableChaos cancel the repeating poll and no one-shot cascade timer, so a
\* cascade in progress goes on exploding bodies after the stop.
C31_StopKeepsCascade == [][StopLeavesCascade]_vars

\* The watcher is stopped and a delayed trigger has just exploded a barrel
\* that was in the world.
C31_Witness ==
    /\ last.op = "trigger"
    /\ ~chaos.autoExplodeEnabled
    /\ TimersOf("watcher") = {}
    /\ \E e \in BagToSet(explosions) : e.by = "trigger" /\ e.present
    /\ timeouts # EmptyBag

(***************************************************************************)
(* Properties of the update loop, under SpecTick.                          *)
(***************************************************************************)
\* The updates of a call that found `holes` active and `magnets` placed:
\* every hole in its turn, then every magnet in its turn.
HolesThenMagnets(holes, magnets) ==
    [n \in 1..Len(holes) |-> [kind |-> "blackhole", id |-> holes[n]]]
        \o [n \in 1..Len(magnets) |-> [kind |-> "magnet", id |-> magnets[n]]]

\* C32 (tick order): in one updateSpecialObjects call every active black hole
\* is updated before any magnet is, and no magnet is updated between two
\* black holes; with no body in the world nothing is updated.
C32_TickOrder ==
    last.op = "updateSpecialObjects"
        => /\ last.order = IF last.bodies = 0 THEN <<>>
                           ELSE HolesThenMagnets(last.holes, last.magnets)
           /\ \A i, j \in 1..Len(last.order) :
                    (last.order[i].kind = "magnet" /\ last.order[j].kind = "blackhole")
                        => j < i

\* A call has updated two black holes, the first of which expired and
\* exploded in it, and then two magnets.
C32_Witness ==
    /\ last.op = "updateSpecialObjects"
    /\ Len(last.order) = 4
    /\ last.order[1].kind = "blackhole"
    /\ last.order[2].kind = "blackhole"
    /\ Exploded(last.order[1].id)
    /\ last.order[4].kind = "magnet"

(***************************************************************************)
(* Properties of a click with the spawn tool, under SpecClick.             *)
(***************************************************************************)
\* The labels of the bodies of w that are not static, in order.
Spawned(w) ==
    LET dyn == SelectSeq(getAllBodies(w), LAMBDA b : ~b.isStatic)
    IN [i \in 1..Len(dyn) |-> dyn[i].label]

\* C33 (one local spawn yields one remote body): a remote peer's world holds
\* no more spawned bodies than the clicking peer's, one for each click it
\* heard of, and each of a type the clicking peer spawned.
C33_OneSpawnOneBody ==
    \A p \in Peers \ {Me} :
        /\ Len(Spawned(world[p])) <= Len(Spawned(world[Me]))
        /\ \A i \in 1..Len(Spawned(world[p])) :
                \E j \in 1..Len(Spawned(world[Me])) :
                    Spawned(world[p])[i] = Spawned(world[Me])[j]

(***************************************************************************)
(* Properties of a black hole's two ways to explode, under SpecHoles.      *)
(***************************************************************************)
\* The explodeBlackHole calls that ran their effects for the hole id.
ExplosionsOf(id) ==
    LET calls == {e \in BagToSet(holeLog.exploded) : e.hole = id}
        RECURSIVE Sum(_)
        Sum(S) == IF S = {} THEN 0
                  ELSE LET e == CHOOSE x \in S : TRUE
                       IN CopiesIn(e, holeLog.exploded) + Sum(S \ {e})
    IN Sum(calls)

\* C34 (each black hole explodes at most once): whatever the order of the
\* update pass that finds a hole expired and of the hole's own timer,
\* explodeBlackHole runs its effects at most once for a hole.
C34_ExplodesAtMostOnce ==
    \A id \in DOMAIN special.heap : ExplosionsOf(id) <= 1

(***************************************************************************)
(* Properties of the loop flags, under SpecChaos.                          *)
(***************************************************************************)
\* C35 (loop flags match timers): the flood flag is true exactly when a flood
\* timer is active, the rules flag exactly when a rules timer is active, and
\* the explosions flag exactly when the watcher timer is active.
C35_FlagsMatchTimers ==
    /\ chaos.objectFloodEnabled <=> TimersOf("flood") # {}
    /\ chaos.suddenRulesEnabled <=> TimersOf("rules") # {}
    /\ chaos.autoExplodeEnabled <=> TimersOf("watcher") # {}

\* The rules loop has just been stopped while the flood and the watcher go
\* on: two flags and two timers are on, one flag and its timer are off.
C35_Witness ==
    /\ last.op = "stopSuddenRules"
    /\ chaos.objectFloodEnabled /\ TimersOf("flood") # {}
    /\ chaos.autoExplodeEnabled /\ TimersOf("watcher") # {}
    /\ ~chaos.suddenRulesEnabled /\ TimersOf("rules") = {}
    /\ nextTimer > 4

(***************************************************************************)
(* Properties of the watcher of a mounted page, under SpecPage.            *)
(***************************************************************************)
\* C36 (the page's watcher stays on): while the game page is mounted the
\* explosion watcher its mount started is active, also after chaos mode has
\* been enabled and disabled.
C36_WatcherWhileMounted ==
    page.mounted => (chaos.autoExplodeEnabled /\ TimersOf("watcher") # {})

(***************************************************************************)
(* Properties of the time controls, under SpecTime.                        *)
(***************************************************************************)
\* C37 (time-control flags match the time scale): with an engine, the time
\* scale is 0 exactly when the frozen flag is set, and 1 exactly when neither
\* the slow-motion flag nor the frozen flag is set.
C37_FlagsMatchTimeScale ==
    world[Me].engine
        => /\ (world[Me].timeScale = 0 <=> special.isFrozen)
           /\ (world[Me].timeScale = 1000
                    <=> (~special.isSlowMo /\ ~special.isFrozen))

(***************************************************************************)
(* SpecCursor: remote cursors and the peers that leave.                    *)
(***************************************************************************)
\* Room codes generateRoomId can draw.
RoomIds == {"AB12CD", "ZZZZZZ"}

\* The transport id of peer q, conn.peer on the other side: the host (Me)
\* opened Peer(`chaos-${roomId}`), a joiner Peer(`chaos-${roomId}-${Date.now()}`)
\* at time t.
connPeer(q, roomId, t) ==
    IF q = Me THEN "chaos-" \o roomId
    ELSE "chaos-" \o roomId \o "-" \o ToString(t)

\* page.js handleDisconnect(peerId): delete next[peerId]
handleDisconnect(cursors, peerId) == {c \in cursors : c.peerId # peerId}

\* Peer q leaves the room (leaveRoom closes its connection), and the 'close'
\* handler of the connection on peer p runs: onDisconnectCallback(conn.peer).
ConnClose(p, q, roomId, t) ==
    /\ p # q
    /\ multiplayer[p] /\ multiplayer[q]
    /\ multiplayer' = [multiplayer EXCEPT ![q] = FALSE]
    /\ remoteCursors' =
          [remoteCursors EXCEPT ![p] = handleDisconnect(@, connPeer(q, roomId, t))]
    /\ last' = [op |-> "handleDisconnect", peer |-> p, left |-> q,
                peerId |-> connPeer(q, roomId, t)]
    /\ UNCHANGED <<now, localPlayerId, world, wire, firstSender, chaosVars>>

NextCursor ==
    \/ Tick
    \/ \E p \in Peers : InitMultiplayer(p, TRUE)
    \/ \E p \in Peers, pos \in Points : CursorTick(p, pos)
    \/ \E p \in Peers, n \in wire : multiplayer[p] /\ HandleMessage(p, n)
    \/ \E p, q \in Peers, roomId \in RoomIds, t \in 0..now : ConnClose(p, q, roomId, t)

SpecCursor == Init /\ [][NextCursor]_vars

\* The cursors peer p shows for peer q: the entries under q's player id.
CursorsOf(cursors, q) == {c \in cursors : c.peerId = localPlayerId[q]}

\* C38 (a disconnected peer's cursor disappears): once the disconnect
\* callback has run on a peer for a peer that left, the remote-cursor map
\* of the former holds no entry for the latter.
C38_CursorGoneAfterDisconnect ==
    last.op = "handleDisconnect"
        => CursorsOf(remoteCursors[last.peer], last.left) = {}

(***************************************************************************)
(* SpecLeave: createRoom and joinRoom step by step, and leaveRoom.  Of a   *)
(* peer, roomId is the module's roomId, peerId the id its Peer was made    *)
(* with, pending the stage of its createRoom or joinRoom call ("none",     *)
(* "createImport", "createOpen", "joinImport", "joinOpen"), and left says  *)
(* that leaveRoom returned and neither createRoom nor joinRoom was called  *)
(* since.                                                                  *)
(***************************************************************************)
\* targetRoomId.toUpperCase(), on the codes a player types
JoinTargets == {"ab12cd", "AB12CD", "ZZZZZZ"}
toUpperCase(str) == IF str = "ab12cd" THEN "AB12CD" ELSE str

\* createRoom, the part that runs in the call: roomId, isHost, the callbacks.
CallCreateRoom(h, roomId) ==
    /\ net.peers[h].pending = "none" /\ ~net.peers[h].peer
    /\ net' = [net EXCEPT !.peers[h].roomId = roomId,
                          !.peers[h].isHost = TRUE,
                          !.peers[h].pending = "createImport",
                          !.peers[h].left = FALSE]
    /\ last' = [op |-> "createRoom", peer |-> h]
    /\ UNCHANGED nonNet

\* joinRoom, the part that runs in the call; its peer id is made here.
CallJoinRoom(j, targetRoomId) ==
    /\ net.peers[j].pending = "none" /\ ~net.peers[j].peer
    /\ net' = [net EXCEPT !.peers[j].roomId = toUpperCase(targetRoomId),
                          !.peers[j].isHost = FALSE,
                          !.peers[j].peerId =
                              "chaos-" \o toUpperCase(targetRoomId)
                                  \o "-" \o ToString(now),
                          !.peers[j].pending = "joinImport",
                          !.peers[j].left = FALSE]
    /\ last' = [op |-> "joinRoom", peer |-> j]
    /\ UNCHANGED nonNet

\* import('peerjs').then(...): peer = new Peer(id), the handlers registered.
\* createRoom builds the id from the roomId the module holds by then.
ImportLoaded(p) ==
    /\ net.peers[p].pending \in {"createImport", "joinImport"}
    /\ net' = IF net.peers[p].pending = "createImport"
              THEN [net EXCEPT !.peers[p].peer = TRUE,
                               !.peers[p].peerId = "chaos-" \o net.peers[p].roomId,
                               !.peers[p].pending = "createOpen"]
              ELSE [net EXCEPT !.peers[p].peer = TRUE,
                               !.peers[p].pending = "joinOpen"]
    /\ last' = [op |-> "import", peer |-> p]
    /\ UNCHANGED nonNet

\* The peers a connection to the id `target` reaches.
Reached(n, target) ==
    {h \in RoomPeers : n.peers[h].peer /\ n.peers[h].peerId = target}

\* peer.on('open') of a live peer.  createRoom resolves.  joinRoom connects
\* to `chaos-${roomId}`, with the roomId the module holds by then: with a
\* peer under that id the connection opens, the host's 'connection' handler
\* and the joiner's 'open' handler each run handleConnection (the
\* connection callback), else the call is rejected.
PeerOpened(p) ==
    /\ net.peers[p].pending \in {"createOpen", "joinOpen"}
    /\ net.peers[p].peer
    /\ LET n0 == [net EXCEPT !.peers[p].pending = "none"]
           hosts == Reached(net, "chaos-" \o net.peers[p].roomId) \ {p}
       IN IF net.peers[p].pending = "createOpen" \/ hosts = {}
          THEN /\ net' = n0
               /\ last' = [op |-> "open", peer |-> p]
          ELSE \E h \in hosts :
                  /\ net' = handleConnection(handleConnection(n0, h, p), p, h)
                  /\ last' = [op |-> "connection", peer |-> p, other |-> h]
    /\ UNCHANGED nonNet

\* leaveRoom() on peer p.  A destroyed peer raises no event: a call that
\* waited for its 'open' ends there.
leaveRoom(n, p) ==
    [n EXCEPT !.peers[p].connections = <<>>,
              !.peers[p].peer = FALSE,
              !.peers[p].roomId = NULL,
              !.peers[p].isHost = FALSE,
              !.peers[p].left = TRUE,
              !.peers[p].pending =
                  IF @ \in {"createOpen", "joinOpen"} THEN "none" ELSE @]

LeaveRoom(p) ==
    /\ net.peers[p].peer \/ net.peers[p].pending # "none"
    /\ net' = leaveRoom(net, p)
    /\ last' = [op |-> "leaveRoom", peer |-> p]
    /\ UNCHANGED nonNet

InSeq(x, seq) == \E i \in 1..Len(seq) : seq[i] = x

\* conn.on('close') on peer q, for the connection to peer r that r closed:
\* the connection leaves the list, the disconnect callback is called.
ConnClosed(q, r) ==
    /\ InSeq(r, net.peers[q].connections)
    /\ ~InSeq(q, net.peers[r].connections)
    /\ net' = [net EXCEPT !.peers[q].connections = SelectSeq(@, LAMBDA c : c # r)]
    /\ last' = [op |-> "disconnect", peer |-> q, other |-> r]
    /\ UNCHANGED nonNet

\* The host and one joiner.  The joiner calls joinRoom again once the host
\* saw it leave; data arrives on connections the receiver still holds.
Joiner == Host + 1
LeavePeers == {Host, Joiner}

NextLeave ==
    \/ \E roomId \in RoomIds : CallCreateRoom(Host, roomId)
    \/ \E target \in JoinTargets :
            /\ ~InSeq(Joiner, net.peers[Host].connections)
            /\ CallJoinRoom(Joiner, target)
    \/ \E p \in LeavePeers : ImportLoaded(p)
    \/ \E p \in LeavePeers : PeerOpened(p)
    \/ \E p \in LeavePeers : LeaveRoom(p)
    \/ \E q, r \in LeavePeers : ConnClosed(q, r)
    \/ \E p \in LeavePeers : PeerBroadcast(p)
    \/ \E m \in BagToSet(net.chan) :
            InSeq(m.from, net.peers[m.to].connections) /\ ConnData(m)

SpecLeave == Init /\ [][NextLeave]_vars

\* C39 (leaving a room is final): on a peer whose leaveRoom returned, with no
\* createRoom or joinRoom called since, the connection count is 0,
\* isConnected() is false, no transport peer exists, and no message,
\* connection or disconnect callback is invoked.
C39_LeaveIsFinal ==
    /\ \A p \in LeavePeers :
          net.peers[p].left
              => /\ Len(net.peers[p].connections) = 0
                 /\ ~isConnected(net, p)
                 /\ ~net.peers[p].peer
    /\ last.op \in {"data", "connection", "disconnect"}
          => ~net.peers[last.peer].left
====
